---- MODULE Spec2Model ----
(***************************************************************************)
(* Relay orchestration of the closeapi gateway: the retry/failover loop of *)
(* controller.Relay / WssRelay / RelayClaude / RelayTask, the retry        *)
(* decision tables, and the quota pre-consumption / settlement / refund    *)
(* path of relay.TextHelper and relay.ResponsesHelper.                     *)
(***************************************************************************)
EXTENDS Integers, Sequences, FiniteSets, TLC

(***************************************************************************)
(* Bounds of the model.                                                    *)
(***************************************************************************)
MaxRetryTimes == 2
NumChannels == 3

(***************************************************************************)
(* Program constants.                                                      *)
(***************************************************************************)
TrustMultiple == 100
QuotaPerUnit == 500000

Reqs == {"r1", "r2"}
Channels == 1 .. NumChannels
ChannelTypes == {"OpenAI", "Anthropic"}
ChannelTypeAnthropic == "Anthropic"

\* provider type of each configured channel (model.Channel.Type)
\* the auto-ban flag of a channel: off for channel 1, on for the others
AutoBanOf(ch) == ch > 1
ChannelTypeOf(ch) == IF ch % 2 = 0 THEN "Anthropic" ELSE "OpenAI"

(***************************************************************************)
(* dto.OpenAIErrorWithStatusCode / dto.TaskError: a nil pointer, or a      *)
(* status code with the LocalError flag.                                   *)
(***************************************************************************)
NoErr == [nil |-> TRUE, status |-> 0, local |-> FALSE, code |-> ""]
MkErr(status, local, code) ==
    [nil |-> FALSE, status |-> status, local |-> local, code |-> code]
\* service.OpenAIErrorWrapperLocal(err, code, statusCode)
OpenAIErrorWrapperLocal(code, status) == MkErr(status, TRUE, code)
\* service.OpenAIErrorWrapper(err, code, statusCode)
OpenAIErrorWrapper(code, status) == MkErr(status, FALSE, code)

\* status codes an upstream response or adaptor error can carry
UpstreamStatuses == {201, 307, 400, 404, 408, 429, 500, 504, 524}

(***************************************************************************)
(* fmt.Sprintf("%d", channelId) for non-negative ids.                      *)
(***************************************************************************)
Digit == <<"0", "1", "2", "3", "4", "5", "6", "7", "8", "9">>
RECURSIVE Itoa(_)
Itoa(n) == IF n < 10 THEN Digit[n + 1] ELSE Itoa(n \div 10) \o Digit[(n % 10) + 1]

\* addUsedChannel without the append
addUsedChannelDropped(useChannel, channelId) == useChannel

addUsedChannel(useChannel, channelId) == Append(useChannel, Itoa(channelId))

(***************************************************************************)
(* controller.shouldRetry: c carries specific_channel_id and channel_type. *)
(***************************************************************************)
\* shouldRetry without the 504/524 exception
shouldRetryAll5xx(hasSpecific, channelType, openaiErr, retryTimes) ==
    IF openaiErr.nil THEN FALSE
    ELSE IF openaiErr.local THEN FALSE
    ELSE IF retryTimes <= 0 THEN FALSE
    ELSE IF hasSpecific THEN FALSE
    ELSE IF openaiErr.status = 429 THEN TRUE
    ELSE IF openaiErr.status = 307 THEN TRUE
    ELSE IF openaiErr.status \div 100 = 5 THEN TRUE
    ELSE IF openaiErr.status = 400 THEN channelType = ChannelTypeAnthropic
    ELSE IF openaiErr.status = 408 THEN FALSE
    ELSE IF openaiErr.status \div 100 = 2 THEN FALSE
    ELSE TRUE

\* shouldRetry without the test of specific_channel_id
shouldRetryIgnorePinned(hasSpecific, channelType, openaiErr, retryTimes) ==
    IF openaiErr.nil THEN FALSE
    ELSE IF openaiErr.local THEN FALSE
    ELSE IF retryTimes <= 0 THEN FALSE
    ELSE IF openaiErr.status = 429 THEN TRUE
    ELSE IF openaiErr.status = 307 THEN TRUE
    ELSE IF openaiErr.status \div 100 = 5
         THEN (IF openaiErr.status = 504 \/ openaiErr.status = 524 THEN FALSE ELSE TRUE)
    ELSE IF openaiErr.status = 400 THEN channelType = ChannelTypeAnthropic
    ELSE IF openaiErr.status = 408 THEN FALSE
    ELSE IF openaiErr.status \div 100 = 2 THEN FALSE
    ELSE TRUE

\* shouldRetry with a 400 retried on every channel type
shouldRetry400Always(hasSpecific, channelType, openaiErr, retryTimes) ==
    IF openaiErr.nil THEN FALSE
    ELSE IF openaiErr.local THEN FALSE
    ELSE IF retryTimes <= 0 THEN FALSE
    ELSE IF hasSpecific THEN FALSE
    ELSE IF openaiErr.status = 429 THEN TRUE
    ELSE IF openaiErr.status = 307 THEN TRUE
    ELSE IF openaiErr.status \div 100 = 5
         THEN (IF openaiErr.status = 504 \/ openaiErr.status = 524 THEN FALSE ELSE TRUE)
    ELSE IF openaiErr.status = 400 THEN TRUE
    ELSE IF openaiErr.status = 408 THEN FALSE
    ELSE IF openaiErr.status \div 100 = 2 THEN FALSE
    ELSE TRUE

shouldRetry(hasSpecific, channelType, openaiErr, retryTimes) ==
    IF openaiErr.nil THEN FALSE
    ELSE IF openaiErr.local THEN FALSE
    ELSE IF retryTimes <= 0 THEN FALSE
    ELSE IF hasSpecific THEN FALSE
    ELSE IF openaiErr.status = 429 THEN TRUE
    ELSE IF openaiErr.status = 307 THEN TRUE
    ELSE IF openaiErr.status \div 100 = 5
         THEN (IF openaiErr.status = 504 \/ openaiErr.status = 524 THEN FALSE ELSE TRUE)
    ELSE IF openaiErr.status = 400 THEN channelType = ChannelTypeAnthropic
    ELSE IF openaiErr.status = 408 THEN FALSE
    ELSE IF openaiErr.status \div 100 = 2 THEN FALSE
    ELSE TRUE

(***************************************************************************)
(* controller.shouldRetryTaskRelay: the LocalError test comes after the    *)
(* status tests, as in the source.                                         *)
(***************************************************************************)
shouldRetryTaskRelay(hasSpecific, taskErr, retryTimes) ==
    IF taskErr.nil THEN FALSE
    ELSE IF retryTimes <= 0 THEN FALSE
    ELSE IF hasSpecific THEN FALSE
    ELSE IF taskErr.status = 429 THEN TRUE
    ELSE IF taskErr.status = 307 THEN TRUE
    ELSE IF taskErr.status \div 100 = 5
         THEN (IF taskErr.status = 504 \/ taskErr.status = 524 THEN FALSE ELSE TRUE)
    ELSE IF taskErr.status = 400 THEN FALSE
    ELSE IF taskErr.status = 408 THEN FALSE
    ELSE IF taskErr.local THEN FALSE
    ELSE IF taskErr.status \div 100 = 2 THEN FALSE
    ELSE TRUE

\* loop condition of RelayTask without the retry bound
TaskLoopCondUnbounded(hasSpecific, taskErr, retryTimes, i) ==
    shouldRetryTaskRelay(hasSpecific, taskErr, retryTimes)

\* for i := 0; shouldRetryTaskRelay(...) && i < retryTimes; i++
TaskLoopCond(hasSpecific, taskErr, retryTimes, i) ==
    shouldRetryTaskRelay(hasSpecific, taskErr, retryTimes) /\ i < retryTimes

(***************************************************************************)
(* shopspring/decimal values as exact rationals in lowest terms.           *)
(***************************************************************************)
RECURSIVE GCD(_, _)
GCD(a, b) == IF b = 0 THEN a ELSE GCD(b, a % b)
Abs(x) == IF x < 0 THEN -x ELSE x
Rat(n, d) ==
    LET g == GCD(Abs(n), d)
    IN  IF n = 0 THEN [num |-> 0, den |-> 1] ELSE [num |-> n \div g, den |-> d \div g]
DInt(n) == Rat(n, 1)
DZero == DInt(0)
DMul(a, b) == Rat(a.num * b.num, a.den * b.den)
DAdd(a, b) == Rat(a.num * b.den + b.num * a.den, a.den * b.den)
DSub(a, b) == Rat(a.num * b.den - b.num * a.den, a.den * b.den)
DDivInt(a, k) == Rat(a.num, a.den * k)
DIsZero(a) == a.num = 0
DLessThanOrEqualZero(a) == a.num <= 0
DPositive(a) == a.num > 0
\* decimal.Round(0).IntPart(): round half away from zero
DRound(a) ==
    IF a.num >= 0 THEN (2 * a.num + a.den) \div (2 * a.den)
    ELSE -((2 * (-a.num) + a.den) \div (2 * a.den))

(***************************************************************************)
(* The charge computation of relay.postConsumeQuota.                       *)
(*   usage: promptTokens, cachedTokens, imageTokens, audioTokens,          *)
(*          completionTokens                                               *)
(*   price: usePrice, modelPrice, modelRatio, groupRatio, completionRatio, *)
(*          cacheRatio, imageRatio                                         *)
(*   tools: hasResponsesInfo, webCalls, fileCalls, searchPreview,          *)
(*          webSearchPrice, fileSearchPrice, audioInputPrice               *)
(***************************************************************************)
WebSearchQuota(price, tools) ==
    IF tools.hasResponsesInfo
    THEN IF tools.webCalls > 0
         THEN DMul(DMul(DDivInt(DMul(tools.webSearchPrice, DInt(tools.webCalls)), 1000),
                        price.groupRatio), DInt(QuotaPerUnit))
         ELSE DZero
    ELSE IF tools.searchPreview
         THEN DMul(DMul(DDivInt(tools.webSearchPrice, 1000), price.groupRatio),
                   DInt(QuotaPerUnit))
         ELSE DZero

FileSearchQuota(price, tools) ==
    IF tools.hasResponsesInfo /\ tools.fileCalls > 0
    THEN DMul(DMul(DDivInt(DMul(tools.fileSearchPrice, DInt(tools.fileCalls)), 1000),
                   price.groupRatio), DInt(QuotaPerUnit))
    ELSE DZero

AudioSeparate(usage, price, tools) ==
    ~price.usePrice /\ usage.audioTokens # 0 /\ DPositive(tools.audioInputPrice)

AudioInputQuota(usage, price, tools) ==
    IF AudioSeparate(usage, price, tools)
    THEN DMul(DMul(DMul(DDivInt(tools.audioInputPrice, 1000000), DInt(usage.audioTokens)),
                   price.groupRatio), DInt(QuotaPerUnit))
    ELSE DZero

\* the per-token sum before the clamp of line 494
TokenQuotaDecimal(usage, price, tools) ==
    LET afterCache == IF usage.cachedTokens # 0
                      THEN DSub(DInt(usage.promptTokens), DInt(usage.cachedTokens))
                      ELSE DInt(usage.promptTokens)
        cachedTokensWithRatio == IF usage.cachedTokens # 0
                                 THEN DMul(DInt(usage.cachedTokens), price.cacheRatio)
                                 ELSE DZero
        afterImage == IF usage.imageTokens # 0
                      THEN DSub(afterCache, DInt(usage.imageTokens))
                      ELSE afterCache
        imageTokensWithRatio == IF usage.imageTokens # 0
                                THEN DMul(DInt(usage.imageTokens), price.imageRatio)
                                ELSE DZero
        baseTokens == IF AudioSeparate(usage, price, tools)
                      THEN DSub(afterImage, DInt(usage.audioTokens))
                      ELSE afterImage
        promptQuota == DAdd(DAdd(baseTokens, cachedTokensWithRatio), imageTokensWithRatio)
        completionQuota == DMul(DInt(usage.completionTokens), price.completionRatio)
        ratio == DMul(price.modelRatio, price.groupRatio)
    IN  DMul(DAdd(promptQuota, completionQuota), ratio)

\* the line-494 test: the per-token sum is replaced by 1
MinimumChargeClamp(usage, price, tools) ==
    /\ ~price.usePrice
    /\ ~DIsZero(DMul(price.modelRatio, price.groupRatio))
    /\ DLessThanOrEqualZero(TokenQuotaDecimal(usage, price, tools))

\* the per-token part is rounded on its own before the other charges are added
QuotaCalculateDecimalRoundedFirst(usage, price, tools) ==
    LET ratio == DMul(price.modelRatio, price.groupRatio)
        tokenPart == TokenQuotaDecimal(usage, price, tools)
        base == IF ~price.usePrice
                THEN (IF ~DIsZero(ratio) /\ DLessThanOrEqualZero(tokenPart)
                      THEN DInt(1) ELSE DInt(DRound(tokenPart)))
                ELSE DMul(DMul(price.modelPrice, DInt(QuotaPerUnit)), price.groupRatio)
    IN  DAdd(DAdd(DAdd(base, WebSearchQuota(price, tools)), FileSearchQuota(price, tools)),
             AudioInputQuota(usage, price, tools))

\* quotaCalculateDecimal as it stands before Round(0), line 504
QuotaCalculateDecimal(usage, price, tools) ==
    LET ratio == DMul(price.modelRatio, price.groupRatio)
        tokenPart == TokenQuotaDecimal(usage, price, tools)
        base == IF ~price.usePrice
                THEN (IF ~DIsZero(ratio) /\ DLessThanOrEqualZero(tokenPart)
                      THEN DInt(1) ELSE tokenPart)
                ELSE DMul(DMul(price.modelPrice, DInt(QuotaPerUnit)), price.groupRatio)
    IN  DAdd(DAdd(DAdd(base, WebSearchQuota(price, tools)), FileSearchQuota(price, tools)),
             AudioInputQuota(usage, price, tools))

TotalTokens(usage) == usage.promptTokens + usage.completionTokens

\* the charge without the zero-token override
FinalQuotaNoZeroForce(usage, price, tools) ==
    DRound(QuotaCalculateDecimal(usage, price, tools))

\* quota of postConsumeQuota, lines 506-524
FinalQuota(usage, price, tools) ==
    IF TotalTokens(usage) = 0 THEN 0
    ELSE DRound(QuotaCalculateDecimal(usage, price, tools))

(***************************************************************************)
(* relay.preConsumeQuota, lines 326-349: the balance test and the trust    *)
(* rule, on the balance read by model.GetUserQuota.                        *)
(***************************************************************************)
\* the balance test without its second comparison
InsufficientUserQuotaFirstOnly(userQuota, preConsumedQuota) == userQuota <= 0

InsufficientUserQuota(userQuota, preConsumedQuota) ==
    userQuota <= 0 \/ userQuota - preConsumedQuota < 0

\* the trust rule with >= in place of > on the user balance
TrustedNoPreConsumeGeq(userQuota, preConsumedQuota, tokenUnlimited, tokenQuota) ==
    /\ userQuota >= TrustMultiple * preConsumedQuota
    /\ (tokenUnlimited \/ tokenQuota > TrustMultiple * preConsumedQuota)

TrustedNoPreConsume(userQuota, preConsumedQuota, tokenUnlimited, tokenQuota) ==
    /\ userQuota > TrustMultiple * preConsumedQuota
    /\ (tokenUnlimited \/ tokenQuota > TrustMultiple * preConsumedQuota)

\* the amount preConsumeQuota goes on to reserve
ReserveAmount(userQuota, preConsumedQuota, tokenUnlimited, tokenQuota) ==
    IF TrustedNoPreConsume(userQuota, preConsumedQuota, tokenUnlimited, tokenQuota)
    THEN 0 ELSE preConsumedQuota

\* returnPreConsumedQuota never dispatching the refund
ShouldReturnPreConsumedNever(preConsumedQuota) == FALSE

\* returnPreConsumedQuota dispatching a refund for every reservation, zero included
ShouldReturnPreConsumedAlways(preConsumedQuota) == TRUE

\* returnPreConsumedQuota, line 365
ShouldReturnPreConsumed(preConsumedQuota) == preConsumedQuota # 0

\* quotaDelta without the reservation subtracted
QuotaDeltaNoReservation(quota, preConsumedQuota) == quota

\* postConsumeQuota, line 529
QuotaDelta(quota, preConsumedQuota) == quota - preConsumedQuota

(***************************************************************************)
(* State.                                                                  *)
(*   rq[r]            the gin context and locals of request r              *)
(*   RetryTimes       common.RetryTimes                                    *)
(*   chanIndex        channel ids the cache holds for the (group, model)   *)
(*   dbUserQuota      the user's balance in the store                      *)
(*   dbTokenQuota     the token's remaining allotment in the store         *)
(*   userUsedQuota, channelUsedQuota   used-quota counters                 *)
(*   refundTasks      refund tasks handed to gopool, in dispatch order     *)
(*   initUserQuota    the balance before any request ran (history)         *)
(*   retryCase, quotaCase   inputs and results of the decision tables and  *)
(*                    of the charge computation taken on their own         *)
(*   limiter          the rate-limit list of one client in Redis, the      *)
(*                    clock, and the calls of redisRateLimiter in progress *)
(*   sync             the channels tables of databases A and B and the     *)
(*                    position of one run of syncChannels                  *)
(*   idrive           the objects of the bucket and the last lookup of     *)
(*                    GetReqRespFromIdrive                                 *)
(***************************************************************************)
VARIABLES rq, RetryTimes, chanIndex, dbUserQuota, dbTokenQuota, userUsedQuota,
          channelUsedQuota, refundTasks, initUserQuota, retryCase, quotaCase,
          limiter, sync, idrive

sideVars == <<limiter, sync, idrive>>

vars == <<rq, RetryTimes, chanIndex, dbUserQuota, dbTokenQuota, userUsedQuota,
          channelUsedQuota, refundTasks, initUserQuota, retryCase, quotaCase, sideVars>>

relayVars == <<rq, RetryTimes, chanIndex, dbUserQuota, dbTokenQuota, userUsedQuota,
               channelUsedQuota, refundTasks, initUserQuota>>

(***************************************************************************)
(* middleware.redisRateLimiter for one key "rateLimit:" + mark + client    *)
(* IP.  The clock is read at the resolution of a tick; a second has        *)
(* TicksPerSecond ticks.  The list holds timestamps, newest first.         *)
(***************************************************************************)
LimProcs == {"g1", "g2"}
\* the parameters maxRequestNum and duration (seconds) of the limiter
maxRequestNum == 2
duration == 2
TicksPerSecond == 2
\* the last tick of the clock and the number of calls that are made
MaxClock == 6
MaxCalls == 4

IdleCall == [pc |-> "idle", listLength |-> 0]
IdleLimiter ==
    [serial |-> TRUE, list |-> <<>>, clock |-> 0, calls |-> 0,
     call |-> [g \in LimProcs |-> IdleCall],
     admitted |-> <<>>, rejected |-> 0, failed |-> 0]

(***************************************************************************)
(* The channels tables of the two synchronisations.  A row is an id and a  *)
(* name; id is the primary key.                                            *)
(***************************************************************************)
MaxSyncId == 3
SyncIds == 1 .. MaxSyncId
SyncNames == {"x", "y"}
SyncRows == [id : SyncIds, name : SyncNames]
SyncTables == {t \in SUBSET SyncRows : \A p, q \in t : p.id = q.id => p = q}
NamesOf(rows) == {row.name : row \in rows}
\* tables in which name carries a unique index as well
UniqueNames(t) == \A p, q \in t : p.name = q.name => p = q

IdleSync ==
    [kind |-> "none", nameUnique |-> FALSE, A |-> {}, B |-> {}, a |-> <<>>, b |-> <<>>,
     pc |-> "idle", txOpen |-> FALSE, tx |-> {}, before |-> {}, i |-> 1,
     result |-> "none", failedAt |-> "none", dirty |-> FALSE]

(***************************************************************************)
(* The archive bucket.  An object key is the sequence of the parts it is   *)
(* formatted from.                                                         *)
(***************************************************************************)
ArchiveIds == {"", "r1", "r2"}
ArchiveBodies == {"q1", "q2"}
MaxArchiveOps == 3
NoLookup == [done |-> FALSE, requestId |-> "", found |-> FALSE, message |-> ""]
IdleIdrive ==
    [objects |-> {}, saved |-> {}, lookup |-> NoLookup, ops |-> 0, exited |-> FALSE]

IdleSide == limiter = IdleLimiter /\ sync = IdleSync /\ idrive = IdleIdrive

(***************************************************************************)
(* Inputs.                                                                 *)
(***************************************************************************)
Kinds == {"Relay", "WssRelay", "RelayClaude", "RelayTask"}
InitQuotas == {0, 3, 500, 1000}
EstValues == {0, 5, 50}
TokenCases == {[unlimited |-> TRUE, quota |-> 0], [unlimited |-> FALSE, quota |-> 3],
               [unlimited |-> FALSE, quota |-> 1000]}

NoUsage == [promptTokens |-> 0, cachedTokens |-> 0, imageTokens |-> 0, audioTokens |-> 0,
            completionTokens |-> 0]
SmallUsage == [NoUsage EXCEPT !.promptTokens = 5, !.completionTokens = 2]
OneTokenUsage == [NoUsage EXCEPT !.promptTokens = 1]
MixedUsage == [NoUsage EXCEPT !.promptTokens = 10, !.cachedTokens = 4, !.imageTokens = 2,
                              !.audioTokens = 2, !.completionTokens = 3]
UnitPrice == [usePrice |-> FALSE, modelPrice |-> DZero, modelRatio |-> DInt(1),
              groupRatio |-> DInt(1), completionRatio |-> DInt(1),
              cacheRatio |-> Rat(1, 2), imageRatio |-> DInt(2)]
TenthPrice == [UnitPrice EXCEPT !.modelRatio = Rat(1, 10)]
FlatPrice == [UnitPrice EXCEPT !.usePrice = TRUE, !.modelPrice = Rat(1, 50000)]
NoTools == [hasResponsesInfo |-> FALSE, webCalls |-> 0, fileCalls |-> 0,
            searchPreview |-> FALSE, webSearchPrice |-> DInt(10),
            fileSearchPrice |-> Rat(5, 2), audioInputPrice |-> DZero]
ResponsesTools == [NoTools EXCEPT !.hasResponsesInfo = TRUE, !.webCalls = 1, !.fileCalls = 2]
AudioTools == [NoTools EXCEPT !.audioInputPrice = DInt(1)]
\* usage, price snapshot and tool calls of the attempts that settle
SettleCases == {<<NoUsage, UnitPrice, NoTools>>, <<NoUsage, FlatPrice, NoTools>>,
                <<NoUsage, UnitPrice, ResponsesTools>>, <<SmallUsage, UnitPrice, NoTools>>,
                <<OneTokenUsage, TenthPrice, NoTools>>, <<SmallUsage, FlatPrice, NoTools>>,
                <<MixedUsage, UnitPrice, AudioTools>>, <<SmallUsage, UnitPrice, ResponsesTools>>}

\* errors TextHelper or ResponsesHelper returns before it reaches preConsumeQuota
EarlyErrors ==
    {OpenAIErrorWrapperLocal("invalid_text_request", 400),
     OpenAIErrorWrapperLocal("sensitive_words_detected", 400),
     OpenAIErrorWrapperLocal("model_mapped_error", 500),
     OpenAIErrorWrapper("count_token_messages_failed", 500),
     OpenAIErrorWrapperLocal("model_price_error", 500)}
\* errors a helper returns between preConsumeQuota and adaptor.DoRequest
RequestErrors ==
    {OpenAIErrorWrapperLocal("invalid_api_type", 400),
     OpenAIErrorWrapperLocal("convert_request_failed", 500)}
\* the error of a failed adaptor.DoRequest
DoRequestFailed == OpenAIErrorWrapper("do_request_failed", 500)
\* statuses of the response adaptor.DoRequest returns
ResponseStatuses == UpstreamStatuses \cup {200}
\* every 2xx status passes as a success
IsStatusOK2xx(status) == status \div 100 = 2

\* the test httpResp.StatusCode != http.StatusOK, read as "the response is fine"
IsStatusOK(status) == status = 200

\* service.RelayErrorHandler: the error built from a response, with its status
RelayErrorHandler(status) == MkErr(status, FALSE, "upstream_error")
\* the error adaptor.DoResponse returns on a response it cannot use
DoResponseFailed == OpenAIErrorWrapper("do_response_failed", 500)
\* errors a helper returns between preConsumeQuota and the settlement
LateErrors ==
    RequestErrors \cup {DoRequestFailed, DoResponseFailed}
        \cup {RelayErrorHandler(s) : s \in UpstreamStatuses}
\* errors of the helpers whose source is not part of the model
OtherErrors == {MkErr(s, l, "helper_error") : s \in UpstreamStatuses, l \in BOOLEAN}

(***************************************************************************)
(* The error response an entry point writes.  A message is the sequence of *)
(* its parts: the text of the error, then what is appended to it.          *)
(***************************************************************************)
OriginMessage == <<"origin">>
SaturatedMessage == <<"saturated">>
NoResponse == [written |-> FALSE, status |-> 0, message |-> <<>>]

\* common.MessageWithRequestId: the message followed by the request id
MessageWithRequestId(message, id) == Append(message, id)

\* the rewrite of the message of a final 429
SaturationRewrite(err, message) ==
    IF err.status = 429 THEN SaturatedMessage ELSE message

\* what Relay, WssRelay, RelayClaude and RelayTask send for a final error
FinalResponse(kind, err, id) ==
    [written |-> TRUE, status |-> err.status,
     message |->
        IF kind \in {"Relay", "WssRelay"}
        THEN MessageWithRequestId(SaturationRewrite(err, OriginMessage), id)
        ELSE IF kind = "RelayClaude"
        THEN MessageWithRequestId(OriginMessage, id)
        ELSE SaturationRewrite(err, OriginMessage)]

(***************************************************************************)
(* The request body.  A body is a sequence of bytes; c.Request.Body is a   *)
(* reader: what is left to read, and whether it reads the transport or a   *)
(* buffer; key_request_body is the copy GetRequestBody keeps in the        *)
(* context.                                                                *)
(***************************************************************************)
\* the byte a parameter override adds to the encoded request
OverrideByte == 5
Payloads == {<<>>, <<7>>, <<7, 9>>}
BufferedPayload == <<7, 9>>
WireReader(bytes) == [wire |-> TRUE, rest |-> bytes]
BufferReader(bytes) == [wire |-> FALSE, rest |-> bytes]

\* io.ReadAll: a buffer gives what is left of it; the transport gives what
\* is left of it, or fails after k bytes
ReadAll(reader, fail, k) ==
    IF reader.wire /\ fail
    THEN [bytes |-> SubSeq(reader.rest, 1, k), err |-> TRUE,
          reader |-> [reader EXCEPT !.rest = SubSeq(@, k + 1, Len(@))]]
    ELSE [bytes |-> reader.rest, err |-> FALSE,
          reader |-> [reader EXCEPT !.rest = <<>>]]

\* common.GetRequestBody: the kept copy if there is one, else one ReadAll,
\* whose result is kept only when it succeeded
GetRequestBody(req, fail, k) ==
    IF req.keyRequestBody.set
    THEN [bytes |-> req.keyRequestBody.bytes, err |-> FALSE, req |-> req]
    ELSE LET rd == ReadAll(req.reqBody, fail, k)
             counted == [req EXCEPT !.reqBody = rd.reader,
                                    !.wireReads = IF req.reqBody.wire THEN @ + 1 ELSE @]
         IN  IF rd.err
             THEN [bytes |-> <<>>, err |-> TRUE,
                   req |-> [counted EXCEPT !.readFailed = TRUE]]
             ELSE [bytes |-> rd.bytes, err |-> FALSE,
                   req |-> [counted EXCEPT !.keyRequestBody =
                                              [set |-> TRUE, bytes |-> rd.bytes]]]

\* the request body left as the last reader left it
InstallBodySkipped(req, bytes) == req

\* c.Request.Body = io.NopCloser(bytes.NewBuffer(requestBody))
InstallBody(req, bytes) == [req EXCEPT !.reqBody = BufferReader(bytes)]

\* relayRequest, wssRequest, claudeRequest: the body is fetched, its error
\* dropped, and installed again for the attempt
ReinstallBody(req, fail, k) ==
    LET got == GetRequestBody(req, fail, k) IN InstallBody(got.req, got.bytes)

\* no body was handed to adaptor.DoRequest in this attempt
NothingSent == [set |-> FALSE, bytes |-> <<>>]

IdleReq ==
    [pc |-> "off", kind |-> "Relay", specific |-> FALSE,
     channelId |-> 1, channelType |-> ChannelTypeOf(1),
     tokenUnlimited |-> TRUE, tokenQuota |-> 0,
     i |-> 0, retryTimes |-> 0, nAttempts |-> 0, useChannel |-> <<>>, channel |-> 0,
     openaiErr |-> NoErr, estimate |-> 0, userQuota |-> 0, preConsumedQuota |-> 0,
     quota |-> 0, totalTokens |-> 0, result |-> "none",
     httpStatus |-> 0, requestId |-> "", resp |-> NoResponse,
     traced |-> FALSE, errTrail |-> <<>>, errWrites |-> 0,
     payload |-> BufferedPayload, reqBody |-> WireReader(<<>>),
     keyRequestBody |-> [set |-> TRUE, bytes |-> BufferedPayload],
     wireReads |-> 0, readFailed |-> FALSE,
     archiving |-> FALSE, archPending |-> 0, uploadFailed |-> FALSE,
     exited |-> FALSE, reporting |-> FALSE, reports |-> <<>>, cacheCalls |-> 0,
     passThrough |-> FALSE, paramOverride |-> FALSE, jsonContent |-> TRUE,
     sent |-> NothingSent, summaries |-> 0]

IdleRetryCase == [applied |-> FALSE, hasSpecific |-> FALSE, channelType |-> "OpenAI",
                  err |-> NoErr, retryTimes |-> 0, retry |-> FALSE, taskRetry |-> FALSE]
IdleQuotaCase == [applied |-> FALSE, usage |-> NoUsage, price |-> UnitPrice,
                  tools |-> NoTools, decimal |-> DZero, quota |-> 0]

StartPc(kind) == IF kind = "WssRelay" THEN "upgrade"
                 ELSE IF kind = "RelayTask" THEN "task_first" ELSE "loop"

Init ==
    \E R \in 0 .. MaxRetryTimes, kind \in Kinds, sp \in BOOLEAN, uq \in InitQuotas,
       tk \in TokenCases, n \in 1 .. NumChannels :
      LET first == n IN
        /\ (kind # "Relay" => uq = 1000 /\ tk.unlimited)
        \* the balance on the trust boundary of an estimate is run with at
        \* most one retry
        /\ (uq = 500 => R <= 1)
        /\ RetryTimes = R
        /\ chanIndex = 1 .. n
        /\ dbUserQuota = uq
        /\ initUserQuota = uq
        /\ dbTokenQuota = tk.quota
        /\ userUsedQuota = 0
        /\ channelUsedQuota = [c \in Channels |-> 0]
        /\ refundTasks = <<>>
        /\ rq = [r \in Reqs |->
                   IF r = "r1"
                   THEN [IdleReq EXCEPT !.pc = StartPc(kind), !.kind = kind,
                                        !.requestId = r,
                                        !.specific = sp,
                                        !.channelId = first,
                                        !.channelType = ChannelTypeOf(first),
                                        !.tokenUnlimited = tk.unlimited,
                                        !.tokenQuota = tk.quota]
                   ELSE [IdleReq EXCEPT !.requestId = r]]
        /\ retryCase = IdleRetryCase
        /\ quotaCase = IdleQuotaCase
        /\ IdleSide

(***************************************************************************)
(* Two requests of one user in flight together, each through Relay with    *)
(* an unlimited token, sharing the user's balance; common.RetryTimes is 0, *)
(* so each request is one attempt.                                         *)
(***************************************************************************)
ConcQuotas == {50, 1000}

InitConc ==
    \E uq \in ConcQuotas :
        /\ RetryTimes = 0
        /\ chanIndex = 1 .. NumChannels
        /\ dbUserQuota = uq
        /\ initUserQuota = uq
        /\ dbTokenQuota = 0
        /\ userUsedQuota = 0
        /\ channelUsedQuota = [c \in Channels |-> 0]
        /\ refundTasks = <<>>
        /\ rq = [r \in Reqs |->
                   [IdleReq EXCEPT !.pc = "loop", !.kind = "Relay",
                                   !.requestId = r,
                                   !.channelId = NumChannels,
                                   !.channelType = ChannelTypeOf(NumChannels),
                                   !.tokenUnlimited = TRUE]]
        /\ retryCase = IdleRetryCase
        /\ quotaCase = IdleQuotaCase
        /\ IdleSide

(***************************************************************************)
(* One Relay request without a pinned channel and with a retry budget,     *)
(* whose evaluated errors are kept, attempt by attempt, in errTrail.  The   *)
(* balance is above TrustMultiple times every estimate, so no attempt      *)
(* reserves.                                                               *)
(***************************************************************************)
InitTrail ==
    \E R \in 1 .. MaxRetryTimes :
        /\ RetryTimes = R
        /\ chanIndex = 1 .. NumChannels
        /\ dbUserQuota = 10000
        /\ initUserQuota = 10000
        /\ dbTokenQuota = 0
        /\ userUsedQuota = 0
        /\ channelUsedQuota = [c \in Channels |-> 0]
        /\ refundTasks = <<>>
        /\ rq = [r \in Reqs |->
                   IF r = "r1"
                   THEN [IdleReq EXCEPT !.pc = "loop", !.kind = "Relay",
                                        !.requestId = r, !.traced = TRUE,
                                        !.channelId = NumChannels,
                                        !.channelType = ChannelTypeOf(NumChannels),
                                        !.tokenUnlimited = TRUE]
                   ELSE [IdleReq EXCEPT !.requestId = r]]
        /\ retryCase = IdleRetryCase
        /\ quotaCase = IdleQuotaCase
        /\ IdleSide

(***************************************************************************)
(* One Relay request on a balance that needs no reservation, entering with *)
(* any payload still on the transport and nothing kept in the context.     *)
(***************************************************************************)
InitBody ==
    \E R \in 0 .. MaxRetryTimes, payload \in Payloads :
        /\ RetryTimes = R
        /\ chanIndex = 1 .. NumChannels
        /\ dbUserQuota = 10000
        /\ initUserQuota = 10000
        /\ dbTokenQuota = 0
        /\ userUsedQuota = 0
        /\ channelUsedQuota = [c \in Channels |-> 0]
        /\ refundTasks = <<>>
        /\ rq = [r \in Reqs |->
                   IF r = "r1"
                   THEN [IdleReq EXCEPT !.pc = "loop", !.kind = "Relay",
                                        !.requestId = r,
                                        !.channelId = NumChannels,
                                        !.channelType = ChannelTypeOf(NumChannels),
                                        !.tokenUnlimited = TRUE,
                                        !.payload = payload,
                                        !.reqBody = WireReader(payload),
                                        !.keyRequestBody = [set |-> FALSE, bytes |-> <<>>]]
                   ELSE [IdleReq EXCEPT !.requestId = r]]
        /\ retryCase = IdleRetryCase
        /\ quotaCase = IdleQuotaCase
        /\ IdleSide

(***************************************************************************)
(* Two Relay requests of one user, one attempt each, whose attempts start  *)
(* the archival goroutine.                                                 *)
(***************************************************************************)
InitArchive ==
    /\ RetryTimes = 0
    /\ chanIndex = 1 .. NumChannels
    /\ dbUserQuota = 1000
    /\ initUserQuota = 1000
    /\ dbTokenQuota = 0
    /\ userUsedQuota = 0
    /\ channelUsedQuota = [c \in Channels |-> 0]
    /\ refundTasks = <<>>
    /\ rq = [r \in Reqs |->
               [IdleReq EXCEPT !.pc = "loop", !.kind = "Relay",
                               !.requestId = r, !.archiving = TRUE,
                               !.channelId = NumChannels,
                               !.channelType = ChannelTypeOf(NumChannels),
                               !.tokenUnlimited = TRUE]]
    /\ retryCase = IdleRetryCase
    /\ quotaCase = IdleQuotaCase
    /\ IdleSide

(***************************************************************************)
(* One Relay request that needs no reservation and starts on any channel   *)
(* of a full index; each failed attempt starts the error reporter.         *)
(***************************************************************************)
InitReport ==
    \E R \in 0 .. MaxRetryTimes, first \in Channels :
        /\ RetryTimes = R
        /\ chanIndex = Channels
        /\ dbUserQuota = 10000
        /\ initUserQuota = 10000
        /\ dbTokenQuota = 0
        /\ userUsedQuota = 0
        /\ channelUsedQuota = [c \in Channels |-> 0]
        /\ refundTasks = <<>>
        /\ rq = [r \in Reqs |->
                   IF r = "r1"
                   THEN [IdleReq EXCEPT !.pc = "loop", !.kind = "Relay",
                                        !.requestId = r, !.reporting = TRUE,
                                        !.channelId = first,
                                        !.channelType = ChannelTypeOf(first),
                                        !.tokenUnlimited = TRUE]
                   ELSE [IdleReq EXCEPT !.requestId = r]]
        /\ retryCase = IdleRetryCase
        /\ quotaCase = IdleQuotaCase
        /\ IdleSide

(***************************************************************************)
(* One Relay request whose body is still on the transport, with the        *)
(* pass-through setting, the channel's parameter overrides and the         *)
(* Content-Type of the request each way.                                   *)
(***************************************************************************)
InitPass ==
    \E R \in 0 .. MaxRetryTimes, payload \in Payloads,
       pass \in BOOLEAN, override \in BOOLEAN, json \in BOOLEAN :
        /\ RetryTimes = R
        /\ chanIndex = 1 .. NumChannels
        /\ dbUserQuota = 10000
        /\ initUserQuota = 10000
        /\ dbTokenQuota = 0
        /\ userUsedQuota = 0
        /\ channelUsedQuota = [c \in Channels |-> 0]
        /\ refundTasks = <<>>
        /\ rq = [r \in Reqs |->
                   IF r = "r1"
                   THEN [IdleReq EXCEPT !.pc = "loop", !.kind = "Relay",
                                        !.requestId = r,
                                        !.channelId = NumChannels,
                                        !.channelType = ChannelTypeOf(NumChannels),
                                        !.tokenUnlimited = TRUE,
                                        !.payload = payload,
                                        !.reqBody = WireReader(payload),
                                        !.keyRequestBody = [set |-> FALSE, bytes |-> <<>>],
                                        !.passThrough = pass,
                                        !.paramOverride = override,
                                        !.jsonContent = json]
                   ELSE [IdleReq EXCEPT !.requestId = r]]
        /\ retryCase = IdleRetryCase
        /\ quotaCase = IdleQuotaCase
        /\ IdleSide

(***************************************************************************)
(* One Relay request of a user nobody else is using, who holds one or two  *)
(* times the largest estimate, with at least one retry configured.         *)
(***************************************************************************)
RefundQuotas == {50, 100}
InitRefund ==
    \E R \in 1 .. MaxRetryTimes, uq \in RefundQuotas :
        /\ RetryTimes = R
        /\ chanIndex = 1 .. NumChannels
        /\ dbUserQuota = uq
        /\ initUserQuota = uq
        /\ dbTokenQuota = 0
        /\ userUsedQuota = 0
        /\ channelUsedQuota = [c \in Channels |-> 0]
        /\ refundTasks = <<>>
        /\ rq = [r \in Reqs |->
                   IF r = "r1"
                   THEN [IdleReq EXCEPT !.pc = "loop", !.kind = "Relay",
                                        !.requestId = r,
                                        !.channelId = NumChannels,
                                        !.channelType = ChannelTypeOf(NumChannels),
                                        !.tokenUnlimited = TRUE]
                   ELSE [IdleReq EXCEPT !.requestId = r]]
        /\ retryCase = IdleRetryCase
        /\ quotaCase = IdleQuotaCase
        /\ IdleSide

(***************************************************************************)
(* model.CacheGetRandomSatisfiedChannel: a channel of the index whose id   *)
(* is not in the trail of the request; the weighted draw is a free choice. *)
(***************************************************************************)
UsedIds(useChannel) ==
    {ch \in Channels : \E k \in 1 .. Len(useChannel) : useChannel[k] = Itoa(ch)}
CacheGetRandomSatisfiedChannel(index, useChannel) == index \ UsedIds(useChannel)

\* service.PostConsumeQuota: one signed adjustment of balance and allotment
PostConsumeQuota(r, quota) ==
    /\ dbUserQuota' = dbUserQuota - quota
    /\ dbTokenQuota' = IF rq[r].tokenUnlimited THEN dbTokenQuota ELSE dbTokenQuota - quota

\* a write-back of the balance the request read earlier, less the amount
DecreaseUserQuotaWriteBack(r, quota) == dbUserQuota' = rq[r].userQuota - quota

\* model.DecreaseUserQuota: one unconditional decrement of the stored balance
DecreaseUserQuota(r, quota) == dbUserQuota' = dbUserQuota - quota

\* the summary line is written whenever the trail has more than one entry
RetrySummaryOnSuccessToo(kind, err, useChannel) == Len(useChannel) > 1

\* the retry summary line: Relay, WssRelay and RelayClaude reach it only
\* past the return of a successful attempt (Relay, lines 254-257 and
\* 269-275); RelayTask reaches it in every case (lines 603-607)
RetrySummary(kind, err, useChannel) ==
    /\ Len(useChannel) > 1
    /\ (kind = "RelayTask" \/ ~err.nil)

Finish(req, err) ==
    [req EXCEPT !.pc = "done", !.openaiErr = err,
                !.summaries = IF RetrySummary(req.kind, err, req.useChannel)
                              THEN @ + 1 ELSE @,
                !.result = IF err.nil THEN "success" ELSE "error",
                !.resp = IF err.nil THEN req.resp
                         ELSE FinalResponse(req.kind, err, req.requestId),
                !.errWrites = IF err.nil THEN @ ELSE @ + 1]

\* the loop goes on, after the error of the attempt was written to the client
NextIterationWritingError(req) ==
    [req EXCEPT !.pc = "loop", !.i = @ + 1, !.openaiErr = NoErr,
                !.estimate = 0, !.userQuota = 0,
                !.preConsumedQuota = 0, !.httpStatus = 0, !.sent = NothingSent,
                !.resp = FinalResponse(req.kind, req.openaiErr, req.requestId),
                !.errWrites = @ + 1]

\* Relay, lines 262-267 and the i++ of the for statement: shouldRetry said
\* yes, the loop goes on and nothing is written
NextIteration(req) ==
    [req EXCEPT !.pc = "loop", !.i = @ + 1, !.openaiErr = NoErr,
                !.estimate = 0, !.userQuota = 0,
                !.preConsumedQuota = 0, !.httpStatus = 0, !.sent = NothingSent]

\* WssRelay, lines 305-309: the error of a failed upgrade; there is no
\* websocket to send it on
UpgradeFailed(req) ==
    [req EXCEPT !.pc = "done", !.result = "error",
                !.openaiErr = OpenAIErrorWrapper("get_channel_failed", 500)]

\* the failed selection wrapped as an upstream error
GetChannelFailedNotLocal(req) ==
    Finish(req, OpenAIErrorWrapper("get_channel_failed", 500))

\* Relay, lines 243-249: a failed getChannel ends the loop with a local error
GetChannelFailed(req) ==
    Finish(req, OpenAIErrorWrapperLocal("get_channel_failed", 500))

\* middleware.SetupContextForSelectedChannel: the selected channel becomes
\* the channel_id / channel_type of the request context
SetupContextForSelectedChannel(req, ch) ==
    [req EXCEPT !.channelId = ch, !.channelType = ChannelTypeOf(ch)]

\* every attempt, the first one too, asks the channel cache
getChannelAlwaysCached(req, index) ==
    [cached |-> TRUE,
     channels |-> CacheGetRandomSatisfiedChannel(index, req.useChannel)]

\* getChannel, lines 441-464: the channels it can return, and whether the
\* channel cache was consulted
getChannel(req, index) ==
    IF req.i = 0
    THEN [cached |-> FALSE, channels |-> {req.channelId}]
    ELSE [cached |-> TRUE,
          channels |-> CacheGetRandomSatisfiedChannel(index, req.useChannel)]

\* common.UnmarshalJson on the body: empty input is not a JSON value
UnmarshalJsonFails(bytes) == bytes = <<>>

\* common.UnmarshalBodyReusable: the body is fetched, parsed only when the
\* Content-Type is application/json, and installed again
UnmarshalBodyReusable(req) ==
    LET got == GetRequestBody(req, FALSE, 0)
    IN  IF got.err \/ (req.jsonContent /\ UnmarshalJsonFails(got.bytes))
        THEN [err |-> TRUE, req |-> got.req]
        ELSE [err |-> FALSE, req |-> InstallBody(got.req, got.bytes)]

\* adaptor.ConvertOpenAIRequest and json.Marshal: the request re-encoded
\* for the provider
ConvertOpenAIRequest(bytes) == [k \in 1 .. Len(bytes) |-> bytes[k] + 1]

\* the ParamOverride entries merged into the encoded request
ApplyParamOverride(jsonData) == Append(jsonData, OverrideByte)

\* the parameter overrides are merged in pass-through mode too
BuildRequestBodyOverriding(req) ==
    LET body == IF req.passThrough THEN GetRequestBody(req, FALSE, 0).bytes
                ELSE ConvertOpenAIRequest(req.keyRequestBody.bytes)
    IN  IF req.paramOverride THEN ApplyParamOverride(body) ELSE body

\* TextHelper, lines 189-233, ResponsesHelper, lines 700-745: the body
\* handed to adaptor.DoRequest
BuildRequestBody(req) ==
    IF req.passThrough
    THEN GetRequestBody(req, FALSE, 0).bytes
    ELSE LET jsonData == ConvertOpenAIRequest(req.keyRequestBody.bytes)
         IN  IF req.paramOverride THEN ApplyParamOverride(jsonData) ELSE jsonData

\* the report is started for a successful attempt too
GoProcessChannelErrorAlways(req, err) ==
    [req EXCEPT !.reports =
        Append(@, [channel |-> req.channel, channelType |-> ChannelTypeOf(req.channel),
                   autoBan |-> AutoBanOf(req.channel), state |-> "pending",
                   logged |-> <<>>])]

\* Relay, lines 254-260: after the openaiErr == nil return,
\* go processChannelError(c, channel.Id, channel.Type, channel.Name,
\* channel.GetAutoBan(), openaiErr), its arguments evaluated on the spot
GoProcessChannelError(req, err) ==
    IF err.nil THEN req
    ELSE [req EXCEPT !.reports =
             Append(@, [channel |-> req.channel,
                        channelType |-> ChannelTypeOf(req.channel),
                        autoBan |-> AutoBanOf(req.channel), state |-> "pending",
                        logged |-> <<>>])]

(***************************************************************************)
(* WssRelay, lines 303-310: the upgrade to a websocket, before the loop.   *)
(***************************************************************************)
WssUpgrade(r) ==
    /\ rq[r].pc = "upgrade"
    /\ \/ rq' = [rq EXCEPT ![r] = UpgradeFailed(@)]
       \/ rq' = [rq EXCEPT ![r].pc = "loop"]
    /\ UNCHANGED <<RetryTimes, chanIndex, dbUserQuota, dbTokenQuota, userUsedQuota,
                   channelUsedQuota, refundTasks, initUserQuota, retryCase, quotaCase, sideVars>>

(***************************************************************************)
(* Relay / WssRelay / RelayClaude: the head of one loop iteration,         *)
(* getChannel followed by relayRequest / wssRequest / claudeRequest up to  *)
(* the call of the helper.                                                 *)
(***************************************************************************)
RelayLoopIter(r) ==
    /\ rq[r].pc = "loop"
    /\ rq[r].i <= RetryTimes
    /\ LET got == getChannel(rq[r], chanIndex)
           asked == [rq[r] EXCEPT !.cacheCalls = IF got.cached THEN @ + 1 ELSE @]
       IN  IF got.channels = {}
           THEN rq' = [rq EXCEPT ![r] = GetChannelFailed(asked)]
           ELSE \E ch \in got.channels, fail \in BOOLEAN,
                   k \in 0 .. Len(rq[r].reqBody.rest) :
                  rq' = [rq EXCEPT ![r] =
                           [ReinstallBody(
                               IF got.cached
                               THEN SetupContextForSelectedChannel(asked, ch)
                               ELSE asked, fail, k)
                               EXCEPT !.pc = "helper", !.channel = ch,
                                      !.useChannel = addUsedChannel(@, ch),
                                      !.nAttempts = @ + 1]]
    /\ UNCHANGED <<RetryTimes, chanIndex, dbUserQuota, dbTokenQuota, userUsedQuota,
                   channelUsedQuota, refundTasks, initUserQuota, retryCase, quotaCase, sideVars>>

(***************************************************************************)
(* TextHelper / ResponsesHelper from entry to the balance read of          *)
(* preConsumeQuota: the early returns, model.GetUserQuota, the balance     *)
(* test and the trust rule.                                                *)
(***************************************************************************)
HelperStart(r) ==
    LET parsed == UnmarshalBodyReusable(rq[r])
        Early(e) == [parsed.req EXCEPT !.pc = "evaluate", !.openaiErr = e,
                                       !.estimate = 0, !.userQuota = 0,
                                       !.preConsumedQuota = 0]
    IN
    /\ rq[r].pc = "helper"
    /\ rq[r].kind = "Relay"
    /\ IF parsed.err
       THEN rq' = [rq EXCEPT ![r] =
                     Early(OpenAIErrorWrapperLocal("invalid_text_request", 400))]
       ELSE
       \/ \E e \in EarlyErrors : rq' = [rq EXCEPT ![r] = Early(e)]
       \/ \* model.GetUserQuota fails
          rq' = [rq EXCEPT ![r] =
                   Early(OpenAIErrorWrapperLocal("get_user_quota_failed", 500))]
       \/ \E est \in EstValues :
            LET userQuota == dbUserQuota
                pre == ReserveAmount(userQuota, est, rq[r].tokenUnlimited, rq[r].tokenQuota)
            IN  IF InsufficientUserQuota(userQuota, est)
                THEN rq' = [rq EXCEPT ![r] =
                              [parsed.req
                                  EXCEPT !.pc = "evaluate",
                                         !.openaiErr = OpenAIErrorWrapperLocal(
                                                          "insufficient_user_quota", 403),
                                         !.estimate = est, !.userQuota = userQuota,
                                         !.preConsumedQuota = 0]]
                ELSE rq' = [rq EXCEPT ![r] =
                              [parsed.req
                                  EXCEPT !.pc = IF pre > 0 THEN "predec" ELSE "upstream",
                                         !.openaiErr = NoErr,
                                         !.estimate = est, !.userQuota = userQuota,
                                         !.preConsumedQuota = pre]]
    /\ UNCHANGED <<RetryTimes, chanIndex, dbUserQuota, dbTokenQuota, userUsedQuota,
                   channelUsedQuota, refundTasks, initUserQuota, retryCase, quotaCase, sideVars>>

(***************************************************************************)
(* preConsumeQuota, lines 351-361: service.PreConsumeTokenQuota then       *)
(* model.DecreaseUserQuota.                                                *)
(***************************************************************************)
PreConsumeDec(r) ==
    LET pre == rq[r].preConsumedQuota
        tokenShort == ~rq[r].tokenUnlimited /\ dbTokenQuota < pre
        tokenAfter == IF rq[r].tokenUnlimited THEN dbTokenQuota ELSE dbTokenQuota - pre
    IN  /\ rq[r].pc = "predec"
        /\ IF tokenShort
           THEN /\ rq' = [rq EXCEPT ![r] =
                            [@ EXCEPT !.pc = "evaluate", !.preConsumedQuota = 0,
                                      !.openaiErr = OpenAIErrorWrapperLocal(
                                                       "pre_consume_token_quota_failed", 403)]]
                /\ UNCHANGED <<dbUserQuota, dbTokenQuota>>
           ELSE \/ \* model.DecreaseUserQuota fails
                   /\ rq' = [rq EXCEPT ![r] =
                               [@ EXCEPT !.pc = "evaluate", !.preConsumedQuota = 0,
                                         !.openaiErr = OpenAIErrorWrapperLocal(
                                                          "decrease_user_quota_failed", 500)]]
                   /\ dbTokenQuota' = tokenAfter
                   /\ UNCHANGED dbUserQuota
                \/ /\ rq' = [rq EXCEPT ![r].pc = "upstream"]
                   /\ dbTokenQuota' = tokenAfter
                   /\ DecreaseUserQuota(r, pre)
        /\ UNCHANGED <<RetryTimes, chanIndex, userUsedQuota, channelUsedQuota,
                       refundTasks, initUserQuota, retryCase, quotaCase, sideVars>>

(***************************************************************************)
(* The helper from the deferred refund check to adaptor.DoResponse: an     *)
(* error return runs the deferred returnPreConsumedQuota, which hands the  *)
(* refund to gopool and returns.                                           *)
(***************************************************************************)
Upstream(r) ==
    /\ rq[r].pc = "upstream"
    /\ \E out \in [err : RequestErrors \cup {DoRequestFailed}, status : {0}]
                   \cup [err : {NoErr, DoResponseFailed}, status : ResponseStatuses] :
         LET e == IF out.status = 0 THEN out.err
                  ELSE IF ~IsStatusOK(out.status) THEN RelayErrorHandler(out.status)
                  ELSE out.err
             sent == IF out.err \in RequestErrors THEN NothingSent
                     ELSE [set |-> TRUE, bytes |-> BuildRequestBody(rq[r])]
         IN  /\ (out.status # 0 /\ ~IsStatusOK(out.status) => out.err = NoErr)
             /\ (rq[r].passThrough => out.err.code # "convert_request_failed")
             /\ IF e.nil
                THEN /\ rq' = [rq EXCEPT ![r] = [@ EXCEPT !.pc = "settle",
                                                          !.httpStatus = out.status,
                                                          !.sent = sent]]
                     /\ UNCHANGED refundTasks
                ELSE /\ rq' = [rq EXCEPT ![r] = [@ EXCEPT !.pc = "evaluate",
                                                          !.openaiErr = e,
                                                          !.httpStatus = out.status,
                                                          !.sent = sent]]
                     /\ refundTasks' =
                          IF ShouldReturnPreConsumed(rq[r].preConsumedQuota)
                          THEN Append(refundTasks, [req |-> r, att |-> rq[r].nAttempts,
                                                    amount |-> rq[r].preConsumedQuota,
                                                    done |-> FALSE])
                          ELSE refundTasks
    /\ UNCHANGED <<RetryTimes, chanIndex, dbUserQuota, dbTokenQuota, userUsedQuota,
                   channelUsedQuota, initUserQuota, retryCase, quotaCase, sideVars>>

(***************************************************************************)
(* relay.postConsumeQuota on the usage the adaptor returned.               *)
(***************************************************************************)
Settle(r) ==
    /\ rq[r].pc = "settle"
    /\ \E case \in SettleCases :
         LET usage == case[1]
             price == case[2]
             tools == case[3]
             quota == FinalQuota(usage, price, tools)
             totalTokens == TotalTokens(usage)
             quotaDelta == QuotaDelta(quota, rq[r].preConsumedQuota)
         IN  /\ rq' = [rq EXCEPT ![r] =
                         [@ EXCEPT !.pc = "evaluate", !.openaiErr = NoErr,
                                   !.quota = quota, !.totalTokens = totalTokens]]
             /\ IF totalTokens = 0
                THEN UNCHANGED <<userUsedQuota, channelUsedQuota>>
                ELSE /\ userUsedQuota' = userUsedQuota + quota
                     /\ channelUsedQuota' =
                          [channelUsedQuota EXCEPT ![rq[r].channelId] = @ + quota]
             /\ IF quotaDelta # 0
                THEN PostConsumeQuota(r, quotaDelta)
                ELSE UNCHANGED <<dbUserQuota, dbTokenQuota>>
    /\ UNCHANGED <<RetryTimes, chanIndex, refundTasks, initUserQuota, retryCase,
                   quotaCase, sideVars>>

(***************************************************************************)
(* relay.WssHelper / relay.ClaudeHelper: only the returned error is known. *)
(***************************************************************************)
OtherHelper(r) ==
    /\ rq[r].pc = "helper"
    /\ rq[r].kind \in {"WssRelay", "RelayClaude"}
    /\ \E e \in OtherErrors \cup {NoErr} :
         rq' = [rq EXCEPT ![r] = [@ EXCEPT !.pc = "evaluate", !.openaiErr = e]]
    /\ UNCHANGED <<RetryTimes, chanIndex, dbUserQuota, dbTokenQuota, userUsedQuota,
                   channelUsedQuota, refundTasks, initUserQuota, retryCase, quotaCase, sideVars>>

(***************************************************************************)
(* Relay / WssRelay / RelayClaude: the tail of one loop iteration, from    *)
(* the nil test to the i++ of the for statement.  The error and the        *)
(* locals of the finished attempt are dead from here to their next         *)
(* assignment.  The go SaveReqAndRespToIdrive(c) at the end of             *)
(* relayHandler is taken here, as the start of one more goroutine.         *)
(***************************************************************************)
Evaluate(r) ==
    /\ rq[r].pc = "evaluate"
    /\ LET err == rq[r].openaiErr
           spawned == IF rq[r].archiving /\ rq[r].kind = "Relay"
                      THEN [rq[r] EXCEPT !.archPending = @ + 1]
                      ELSE rq[r]
           traced == IF rq[r].traced /\ ~err.nil
                     THEN [spawned EXCEPT !.errTrail =
                              Append(@, [status |-> err.status, local |-> err.local,
                                         channelType |-> rq[r].channelType])]
                     ELSE spawned
           seen == IF rq[r].reporting
                   THEN GoProcessChannelError(traced, err)
                   ELSE traced
       IN  rq' = [rq EXCEPT ![r] =
                    IF err.nil
                    THEN Finish(seen, NoErr)
                    ELSE IF ~shouldRetry(rq[r].specific, rq[r].channelType, err,
                                         RetryTimes - rq[r].i)
                    THEN Finish(seen, err)
                    ELSE IF rq[r].i + 1 <= RetryTimes
                    THEN NextIteration(seen)
                    ELSE Finish([seen EXCEPT !.i = @ + 1], err)]
    /\ UNCHANGED <<RetryTimes, chanIndex, dbUserQuota, dbTokenQuota, userUsedQuota,
                   channelUsedQuota, refundTasks, initUserQuota, retryCase, quotaCase, sideVars>>

(***************************************************************************)
(* RelayTask, lines 576-585: the first task attempt on the channel of the  *)
(* inbound context.                                                        *)
(***************************************************************************)
TaskFirst(r) ==
    /\ rq[r].pc = "task_first"
    /\ \E e \in OtherErrors \cup {NoErr} :
         rq' = [rq EXCEPT ![r] =
                  [@ EXCEPT !.pc = "task_loop", !.useChannel = <<Itoa(rq[r].channelId)>>,
                            !.channel = rq[r].channelId, !.openaiErr = e,
                            !.retryTimes = IF e.nil THEN 0 ELSE RetryTimes,
                            !.i = 0, !.nAttempts = 1]]
    /\ UNCHANGED <<RetryTimes, chanIndex, dbUserQuota, dbTokenQuota, userUsedQuota,
                   channelUsedQuota, refundTasks, initUserQuota, retryCase, quotaCase, sideVars>>

(***************************************************************************)
(* RelayTask, lines 586-614: one pass of the retry loop, or its exit.      *)
(***************************************************************************)
TaskLoop(r) ==
    /\ rq[r].pc = "task_loop"
    /\ IF TaskLoopCond(rq[r].specific, rq[r].openaiErr, rq[r].retryTimes, rq[r].i)
       THEN LET cands == CacheGetRandomSatisfiedChannel(chanIndex, rq[r].useChannel)
            IN  IF cands = {}
                THEN rq' = [rq EXCEPT ![r] = Finish(@, rq[r].openaiErr)]
                ELSE \E ch \in cands, e \in OtherErrors \cup {NoErr}, fail \in BOOLEAN,
                        k \in 0 .. Len(rq[r].reqBody.rest) :
                       rq' = [rq EXCEPT ![r] =
                                [ReinstallBody(@, fail, k)
                                    EXCEPT !.channel = ch, !.channelId = ch,
                                          !.channelType = ChannelTypeOf(ch),
                                          !.useChannel = Append(@, Itoa(ch)),
                                          !.openaiErr = e, !.i = @ + 1,
                                          !.nAttempts = @ + 1]]
       ELSE rq' = [rq EXCEPT ![r] = Finish(@, rq[r].openaiErr)]
    /\ UNCHANGED <<RetryTimes, chanIndex, dbUserQuota, dbTokenQuota, userUsedQuota,
                   channelUsedQuota, refundTasks, initUserQuota, retryCase, quotaCase, sideVars>>

(***************************************************************************)
(* The gopool task of returnPreConsumedQuota, lines 366-373.               *)
(***************************************************************************)
RefundRun(k) ==
    /\ k \in 1 .. Len(refundTasks)
    /\ ~refundTasks[k].done
    /\ ~rq[refundTasks[k].req].exited
    /\ PostConsumeQuota(refundTasks[k].req, -refundTasks[k].amount)
    /\ refundTasks' = [refundTasks EXCEPT ![k].done = TRUE]
    /\ UNCHANGED <<rq, RetryTimes, chanIndex, userUsedQuota, channelUsedQuota,
                   initUserQuota, retryCase, quotaCase, sideVars>>

\* log.Fatalf in UploadToIdrive: the process exits; requests that are not
\* over are cut off and no goroutine runs any more
ProcessExit(reqs, r) ==
    [q \in Reqs |->
       [reqs[q] EXCEPT !.exited = TRUE,
                       !.uploadFailed = IF q = r THEN TRUE ELSE @,
                       !.archPending = IF q = r THEN @ - 1 ELSE @,
                       !.pc = IF @ \in {"off", "done"} THEN @ ELSE "exited"]]

(***************************************************************************)
(* One goroutine started by go SaveReqAndRespToIdrive(c): it returns       *)
(* after logging or after the upload and SaveRequestId, or the upload      *)
(* fails inside UploadToIdrive.                                            *)
(***************************************************************************)
ArchiveRun(r) ==
    /\ rq[r].archPending > 0
    /\ ~rq[r].exited
    /\ \/ rq' = [rq EXCEPT ![r].archPending = @ - 1]
       \/ rq' = ProcessExit(rq, r)
    /\ UNCHANGED <<RetryTimes, chanIndex, dbUserQuota, dbTokenQuota, userUsedQuota,
                   channelUsedQuota, refundTasks, initUserQuota, retryCase, quotaCase, sideVars>>

\* report k of the request holds the error the loop ended with, the one
\* whose message Relay rewrites after the loop (lines 277-285)
HoldsFinalError(req, k) ==
    /\ k = Len(req.reports)
    /\ req.pc = "done"
    /\ req.result = "error"
    /\ req.openaiErr.code # "get_channel_failed"

\* err.Error.Message as processChannelError can read it (lines 510 and
\* 514): the report holds the pointer Relay holds, so a read that is not
\* ordered with the writes of lines 282 and 285 gives the message before,
\* between or after them
ErrorMessageRead(req, k) ==
    IF HoldsFinalError(req, k)
    THEN {OriginMessage, SaturationRewrite(req.openaiErr, OriginMessage),
          req.resp.message}
    ELSE {OriginMessage}

\* the channel is disabled whenever the error is classified as disabling
ShouldDisableIgnoringAutoBan(classified, autoBan) == classified

\* processChannelError, line 513: service.ShouldDisableChannel(...) && autoBan
ShouldDisable(classified, autoBan) == classified /\ autoBan

\* service.DisableChannel: the channel leaves the index of usable channels
DisableChannel(index, ch) == index \ {ch}

(***************************************************************************)
(* One goroutine started by go processChannelError(...), with the channel  *)
(* id and the auto-ban flag it was given; the answer of                    *)
(* service.ShouldDisableChannel is a free choice.                          *)
(***************************************************************************)
ReportRun(r) ==
    /\ ~rq[r].exited
    /\ \E k \in 1 .. Len(rq[r].reports), classified \in BOOLEAN :
       \E message \in ErrorMessageRead(rq[r], k) :
         LET rep == rq[r].reports[k] IN
         /\ rep.state = "pending"
         /\ IF ShouldDisable(classified, rep.autoBan)
            THEN /\ chanIndex' = DisableChannel(chanIndex, rep.channel)
                 /\ rq' = [rq EXCEPT ![r].reports[k].state = "disabled",
                                     ![r].reports[k].logged = message]
            ELSE /\ UNCHANGED chanIndex
                 /\ rq' = [rq EXCEPT ![r].reports[k].state = "kept",
                                     ![r].reports[k].logged = message]
    /\ UNCHANGED <<RetryTimes, dbUserQuota, dbTokenQuota, userUsedQuota,
                   channelUsedQuota, refundTasks, initUserQuota, retryCase, quotaCase, sideVars>>

Next ==
    \/ \E r \in Reqs : WssUpgrade(r)
    \/ \E r \in Reqs : RelayLoopIter(r)
    \/ \E r \in Reqs : HelperStart(r)
    \/ \E r \in Reqs : PreConsumeDec(r)
    \/ \E r \in Reqs : Upstream(r)
    \/ \E r \in Reqs : Settle(r)
    \/ \E r \in Reqs : OtherHelper(r)
    \/ \E r \in Reqs : Evaluate(r)
    \/ \E r \in Reqs : TaskFirst(r)
    \/ \E r \in Reqs : TaskLoop(r)
    \/ \E k \in 1 .. Len(refundTasks) : RefundRun(k)

Spec == Init /\ [][Next]_vars

(***************************************************************************)
(* The retry decisions taken on their own: one error, one context, one     *)
(* remaining budget, and the answers of shouldRetry and                    *)
(* shouldRetryTaskRelay.                                                   *)
(***************************************************************************)
RetryStatuses == UpstreamStatuses \cup {200, 204, 299, 401, 403, 502, 503, 599}
RetryErrors == {NoErr} \cup {MkErr(s, l, "") : s \in RetryStatuses, l \in BOOLEAN}

IdleRelay ==
    /\ rq = [r \in Reqs |-> IdleReq]
    /\ RetryTimes = 0
    /\ chanIndex = Channels
    /\ dbUserQuota = 0
    /\ initUserQuota = 0
    /\ dbTokenQuota = 0
    /\ userUsedQuota = 0
    /\ channelUsedQuota = [c \in Channels |-> 0]
    /\ refundTasks = <<>>

InitRetry ==
    /\ IdleRelay
    /\ IdleSide
    /\ quotaCase = IdleQuotaCase
    /\ \E sp \in BOOLEAN, ct \in ChannelTypes, e \in RetryErrors,
          rt \in -1 .. MaxRetryTimes :
         retryCase = [IdleRetryCase EXCEPT !.hasSpecific = sp, !.channelType = ct,
                                           !.err = e, !.retryTimes = rt]

ApplyShouldRetry ==
    /\ ~retryCase.applied
    /\ retryCase' =
         [retryCase EXCEPT
            !.applied = TRUE,
            !.retry = shouldRetry(retryCase.hasSpecific, retryCase.channelType,
                                  retryCase.err, retryCase.retryTimes),
            !.taskRetry = shouldRetryTaskRelay(retryCase.hasSpecific, retryCase.err,
                                               retryCase.retryTimes)]
    /\ UNCHANGED <<relayVars, quotaCase, sideVars>>

NextRetry == ApplyShouldRetry

NextRelay ==
    \/ \E r \in Reqs : \/ RelayLoopIter(r)
                       \/ HelperStart(r)
                       \/ PreConsumeDec(r)
                       \/ Upstream(r)
                       \/ Settle(r)
                       \/ Evaluate(r)
    \/ \E k \in 1 .. Len(refundTasks) : RefundRun(k)

SpecConc == InitConc /\ [][NextRelay]_vars

SpecRefund == InitRefund /\ [][NextRelay]_vars

NextTrail ==
    \E r \in Reqs : \/ RelayLoopIter(r)
                    \/ HelperStart(r)
                    \/ Upstream(r)
                    \/ Settle(r)
                    \/ Evaluate(r)

SpecTrail == InitTrail /\ [][NextTrail]_vars

SpecBody == InitBody /\ [][NextTrail]_vars

SpecPass == InitPass /\ [][NextTrail]_vars

NextReport ==
    \/ NextTrail
    \/ \E r \in Reqs : ReportRun(r)

SpecReport == InitReport /\ [][NextReport]_vars

NextArchive ==
    \/ NextRelay
    \/ \E r \in Reqs : ArchiveRun(r)

SpecArchive == InitArchive /\ [][NextArchive]_vars

SpecRetry == InitRetry /\ [][NextRetry]_vars

\* every request is let through, whatever the age of the oldest timestamp
TooEarlyNever(nowTime, oldTime) == FALSE

\* line 54: int64(nowTime.Sub(oldTime).Seconds()) < duration
TooEarly(nowTime, oldTime) == (nowTime - oldTime) \div TicksPerSecond < duration

\* rdb.LPush(ctx, key, time.Now().Format(timeFormat))
LPush(list, stamp) == <<stamp>> \o list

\* rdb.LTrim(ctx, key, 0, int64(maxRequestNum-1))
LTrim(list) ==
    IF Len(list) <= maxRequestNum THEN list ELSE SubSeq(list, 1, maxRequestNum)

LimiterCallsIdle == \A g \in LimProcs : limiter.call[g].pc = "idle"

\* lines 25-31: a call starts with rdb.LLen, which may fail
LimiterLLen(g) ==
    /\ limiter.call[g].pc = "idle"
    /\ limiter.calls < MaxCalls
    /\ limiter.serial => LimiterCallsIdle
    /\ \/ limiter' = [limiter EXCEPT !.calls = @ + 1,
                                     !.call[g] = [pc |-> "checked",
                                                  listLength |-> Len(limiter.list)]]
       \/ limiter' = [limiter EXCEPT !.calls = @ + 1, !.failed = @ + 1]
    /\ UNCHANGED <<relayVars, retryCase, quotaCase, sync, idrive>>

\* lines 32-34: the list was short, the request is let through
LimiterPushShort(g) ==
    /\ limiter.call[g].pc = "checked"
    /\ limiter.call[g].listLength < maxRequestNum
    /\ limiter' = [limiter EXCEPT !.list = LPush(@, limiter.clock),
                                 !.admitted = Append(@, limiter.clock),
                                 !.call[g] = IdleCall]
    /\ UNCHANGED <<relayVars, retryCase, quotaCase, sync, idrive>>

\* lines 36-59: the oldest timestamp is fetched and compared with the clock
LimiterCompare(g) ==
    /\ limiter.call[g].pc = "checked"
    /\ limiter.call[g].listLength >= maxRequestNum
    /\ IF limiter.list = <<>>
       THEN limiter' = [limiter EXCEPT !.failed = @ + 1, !.call[g] = IdleCall]
       ELSE IF TooEarly(limiter.clock, limiter.list[Len(limiter.list)])
       THEN limiter' = [limiter EXCEPT !.rejected = @ + 1, !.call[g] = IdleCall]
       ELSE limiter' = [limiter EXCEPT !.call[g].pc = "push"]
    /\ UNCHANGED <<relayVars, retryCase, quotaCase, sync, idrive>>

\* line 60
LimiterPush(g) ==
    /\ limiter.call[g].pc = "push"
    /\ limiter' = [limiter EXCEPT !.list = LPush(@, limiter.clock),
                                 !.admitted = Append(@, limiter.clock),
                                 !.call[g].pc = "trim"]
    /\ UNCHANGED <<relayVars, retryCase, quotaCase, sync, idrive>>

\* lines 61-62
LimiterTrim(g) ==
    /\ limiter.call[g].pc = "trim"
    /\ limiter' = [limiter EXCEPT !.list = LTrim(@), !.call[g] = IdleCall]
    /\ UNCHANGED <<relayVars, retryCase, quotaCase, sync, idrive>>

\* time passes
ClockTick ==
    /\ limiter.clock < MaxClock
    /\ limiter' = [limiter EXCEPT !.clock = @ + 1]
    /\ UNCHANGED <<relayVars, retryCase, quotaCase, sync, idrive>>

\* one client whose calls are handled one at a time
InitLimiterSerial ==
    /\ IdleRelay
    /\ retryCase = IdleRetryCase
    /\ quotaCase = IdleQuotaCase
    /\ limiter = [IdleLimiter EXCEPT !.serial = TRUE]
    /\ sync = IdleSync
    /\ idrive = IdleIdrive

\* one client whose calls are handled by goroutines of their own
InitLimiter ==
    /\ IdleRelay
    /\ retryCase = IdleRetryCase
    /\ quotaCase = IdleQuotaCase
    /\ limiter = [IdleLimiter EXCEPT !.serial = FALSE]
    /\ sync = IdleSync
    /\ idrive = IdleIdrive

NextLimiter ==
    \/ \E g \in LimProcs : \/ LimiterLLen(g)
                           \/ LimiterPushShort(g)
                           \/ LimiterCompare(g)
                           \/ LimiterPush(g)
                           \/ LimiterTrim(g)
    \/ ClockTick

SpecLimiterSerial == InitLimiterSerial /\ [][NextLimiter]_vars

SpecLimiter == InitLimiter /\ [][NextLimiter]_vars

(***************************************************************************)
(* controller.syncChannels: read both tables, then atomicUpdate inside one *)
(* transaction on database A.  sync.A is what other connections see of     *)
(* table A, sync.tx is what the open transaction sees.                     *)
(***************************************************************************)
\* getChannels: the rows of a table, in primary-key order
RECURSIVE getChannels(_)
getChannels(table) ==
    IF table = {} THEN <<>>
    ELSE LET first == CHOOSE p \in table : \A q \in table : p.id <= q.id
         IN  <<first>> \o getChannels(table \ {first})

SeqRange(s) == {s[k] : k \in 1 .. Len(s)}

\* nothing is found to delete
getDeleteIDsNone(a, b) == <<>>

\* getDeleteIDs: the ids of a that b does not hold
getDeleteIDs(a, b) ==
    LET bMap == {b[k].id : k \in 1 .. Len(b)}
        gone == SelectSeq(a, LAMBDA ch : ch.id \notin bMap)
    IN  [k \in 1 .. Len(gone) |-> gone[k].id]

\* DELETE FROM channels WHERE id IN (...)
batchDelete(table, ids) == {row \in table : row.id \notin SeqRange(ids)}

\* INSERT INTO channels (id, name) VALUES (?,?) ON DUPLICATE KEY UPDATE name=VALUES(name)
UpsertRow(table, ch) == {row \in table : row.id # ch.id} \cup {ch}

\* a rollback that leaves the writes of the transaction in the table
RollbackKeepingWrites(s, step) ==
    [s EXCEPT !.A = s.tx, !.txOpen = FALSE, !.tx = {}, !.pc = "done",
              !.result = "failed", !.failedAt = step, !.dirty = (s.tx # s.before)]

\* tx.Rollback(): the writes of the transaction are dropped
Rollback(s, step) ==
    [s EXCEPT !.txOpen = FALSE, !.tx = {}, !.pc = "done",
              !.result = "failed", !.failedAt = step, !.dirty = (s.tx # s.before)]

SyncIdle == UNCHANGED <<relayVars, retryCase, quotaCase, limiter, idrive>>

\* syncChannels up to the call of atomicUpdate
SyncRead ==
    /\ sync.kind = "controller"
    /\ sync.pc = "idle"
    /\ \E okA, okB \in BOOLEAN :
          sync' = IF okA /\ okB
                  THEN [sync EXCEPT !.a = getChannels(sync.A), !.b = getChannels(sync.B),
                                    !.pc = "read"]
                  ELSE [sync EXCEPT !.pc = "done", !.result = "failed",
                                    !.failedAt = "getChannels"]
    /\ SyncIdle

\* db.Begin()
AtomicBegin ==
    /\ sync.kind = "controller"
    /\ sync.pc = "read"
    /\ \E ok \in BOOLEAN :
          sync' = IF ok
                  THEN [sync EXCEPT !.txOpen = TRUE, !.tx = sync.A, !.pc = "begun"]
                  ELSE [sync EXCEPT !.pc = "done", !.result = "failed", !.failedAt = "begin"]
    /\ SyncIdle

\* step 1 of atomicUpdate: the batch delete
AtomicDelete ==
    /\ sync.kind = "controller"
    /\ sync.pc = "begun"
    /\ LET deleteIDs == IF Len(sync.a) > 0 THEN getDeleteIDs(sync.a, sync.b) ELSE <<>>
       IN  IF Len(deleteIDs) > 0
           THEN \E ok \in BOOLEAN :
                  sync' = IF ok
                          THEN [sync EXCEPT !.tx = batchDelete(@, deleteIDs), !.pc = "deleted"]
                          ELSE Rollback(sync, "delete")
           ELSE sync' = [sync EXCEPT !.pc = "deleted"]
    /\ SyncIdle

\* batchUpsert: tx.Prepare
AtomicPrepare ==
    /\ sync.kind = "controller"
    /\ sync.pc = "deleted"
    /\ \E ok \in BOOLEAN :
          sync' = IF ok THEN [sync EXCEPT !.pc = "upsert", !.i = 1]
                        ELSE Rollback(sync, "prepare")
    /\ SyncIdle

\* batchUpsert: stmt.Exec of one row of b
AtomicUpsert ==
    /\ sync.kind = "controller"
    /\ sync.pc = "upsert"
    /\ sync.i <= Len(sync.b)
    /\ \E ok \in BOOLEAN :
          sync' = IF ok THEN [sync EXCEPT !.tx = UpsertRow(@, sync.b[sync.i]), !.i = @ + 1]
                        ELSE Rollback(sync, "upsert")
    /\ SyncIdle

\* tx.Commit(): the writes become visible together, or the commit fails and
\* none of them does
AtomicCommit ==
    /\ sync.kind = "controller"
    /\ sync.pc = "upsert"
    /\ sync.i > Len(sync.b)
    /\ \E ok \in BOOLEAN :
          sync' = IF ok
                  THEN [sync EXCEPT !.A = sync.tx, !.txOpen = FALSE, !.tx = {},
                                    !.pc = "done", !.result = "committed"]
                  ELSE [sync EXCEPT !.txOpen = FALSE, !.tx = {}, !.pc = "done",
                                    !.result = "failed", !.failedAt = "commit",
                                    !.dirty = (sync.tx # sync.before)]
    /\ SyncIdle

InitSync ==
    /\ IdleRelay
    /\ retryCase = IdleRetryCase
    /\ quotaCase = IdleQuotaCase
    /\ limiter = IdleLimiter
    /\ idrive = IdleIdrive
    /\ \E A \in SyncTables, B \in SyncTables :
          sync = [IdleSync EXCEPT !.kind = "controller", !.A = A, !.B = B, !.before = A]

NextSync ==
    \/ SyncRead
    \/ AtomicBegin
    \/ AtomicDelete
    \/ AtomicPrepare
    \/ AtomicUpsert
    \/ AtomicCommit

SpecSync == InitSync /\ [][NextSync]_vars

(***************************************************************************)
(* model.syncChannels: the GORM synchronisation, rows matched by name.     *)
(***************************************************************************)
\* model.getDeleteIDs: the ids of the rows of a whose name b does not hold
getDeleteIDsByName(a, b) ==
    LET bMap == {b[k].name : k \in 1 .. Len(b)}
        gone == SelectSeq(a, LAMBDA ch : ch.name \notin bMap)
    IN  [k \in 1 .. Len(gone) |-> gone[k].id]

\* INSERT ... ON DUPLICATE KEY UPDATE id=id, which is what the MySQL dialect
\* writes for OnConflict{DoNothing: true}: the row is skipped when it
\* collides with a row on the primary key or on a unique index
Conflicts(table, ch, nameUnique) ==
    \E row \in table : row.id = ch.id \/ (nameUnique /\ row.name = ch.name)

RECURSIVE CreateInBatches(_, _, _)
CreateInBatches(table, b, nameUnique) ==
    IF b = <<>> THEN table
    ELSE CreateInBatches(IF Conflicts(table, Head(b), nameUnique) THEN table
                         ELSE table \cup {Head(b)},
                         Tail(b), nameUnique)

\* the two FindInBatches of syncChannels
GormRead ==
    /\ sync.kind = "gorm"
    /\ sync.pc = "idle"
    /\ \E okA, okB \in BOOLEAN :
          sync' = IF okA /\ okB
                  THEN [sync EXCEPT !.a = getChannels(sync.A), !.b = getChannels(sync.B),
                                    !.pc = "read"]
                  ELSE [sync EXCEPT !.pc = "done", !.result = "failed",
                                    !.failedAt = "FindInBatches"]
    /\ SyncIdle

\* db.Transaction opens the transaction
GormBegin ==
    /\ sync.kind = "gorm"
    /\ sync.pc = "read"
    /\ \E ok \in BOOLEAN :
          sync' = IF ok
                  THEN [sync EXCEPT !.txOpen = TRUE, !.tx = sync.A, !.pc = "begun"]
                  ELSE [sync EXCEPT !.pc = "done", !.result = "failed", !.failedAt = "begin"]
    /\ SyncIdle

\* tx.Where("id IN ?", deleteIDs).Delete(&Channel{})
GormDelete ==
    /\ sync.kind = "gorm"
    /\ sync.pc = "begun"
    /\ LET deleteIDs == IF Len(sync.a) > 0 THEN getDeleteIDsByName(sync.a, sync.b) ELSE <<>>
       IN  IF Len(deleteIDs) > 0
           THEN \E ok \in BOOLEAN :
                  sync' = IF ok
                          THEN [sync EXCEPT !.tx = batchDelete(@, deleteIDs), !.pc = "deleted"]
                          ELSE Rollback(sync, "delete")
           ELSE sync' = [sync EXCEPT !.pc = "deleted"]
    /\ SyncIdle

\* tx.Clauses(clause.OnConflict{...}).CreateInBatches(&b, 200)
GormCreate ==
    /\ sync.kind = "gorm"
    /\ sync.pc = "deleted"
    /\ \E ok \in BOOLEAN :
          sync' = IF ok
                  THEN [sync EXCEPT !.tx = CreateInBatches(@, sync.b, sync.nameUnique),
                                    !.pc = "created"]
                  ELSE Rollback(sync, "create")
    /\ SyncIdle

\* db.Transaction commits when the callback returned nil
GormCommit ==
    /\ sync.kind = "gorm"
    /\ sync.pc = "created"
    /\ \E ok \in BOOLEAN :
          sync' = IF ok
                  THEN [sync EXCEPT !.A = sync.tx, !.txOpen = FALSE, !.tx = {},
                                    !.pc = "done", !.result = "committed"]
                  ELSE [sync EXCEPT !.txOpen = FALSE, !.tx = {}, !.pc = "done",
                                    !.result = "failed", !.failedAt = "commit",
                                    !.dirty = (sync.tx # sync.before)]
    /\ SyncIdle

InitGormSync ==
    /\ IdleRelay
    /\ retryCase = IdleRetryCase
    /\ quotaCase = IdleQuotaCase
    /\ limiter = IdleLimiter
    /\ idrive = IdleIdrive
    /\ \E A \in SyncTables, B \in SyncTables, nameUnique \in BOOLEAN :
          /\ nameUnique => UniqueNames(A) /\ UniqueNames(B)
          /\ sync = [IdleSync EXCEPT !.kind = "gorm", !.nameUnique = nameUnique,
                                     !.A = A, !.B = B, !.before = A]

NextGormSync ==
    \/ GormRead
    \/ GormBegin
    \/ GormDelete
    \/ GormCreate
    \/ GormCommit

SpecGormSync == InitGormSync /\ [][NextGormSync]_vars

(***************************************************************************)
(* The charge computation taken on its own: one usage, one price snapshot, *)
(* one set of tool calls, and the charge of postConsumeQuota.              *)
(***************************************************************************)
QuotaUsages == [promptTokens : {0, 1, 5}, cachedTokens : {0, 1}, imageTokens : {0, 1},
                audioTokens : {0, 2}, completionTokens : {0, 2}]
QuotaPrices == [usePrice : BOOLEAN, modelPrice : {DZero, Rat(1, 50000), Rat(1, 2000000)},
                modelRatio : {DZero, Rat(1, 10), DInt(1)},
                groupRatio : {Rat(1, 2), DInt(1)},
                completionRatio : {DInt(1), DInt(2)},
                cacheRatio : {Rat(1, 2)}, imageRatio : {DInt(2)}]
QuotaTools == {NoTools, ResponsesTools, AudioTools, [NoTools EXCEPT !.searchPreview = TRUE]}

InitQuota ==
    /\ IdleRelay
    /\ IdleSide
    /\ retryCase = IdleRetryCase
    /\ \E u \in QuotaUsages, p \in QuotaPrices, t \in QuotaTools :
         quotaCase = [IdleQuotaCase EXCEPT !.usage = u, !.price = p, !.tools = t]

ApplyPostConsumeQuota ==
    /\ ~quotaCase.applied
    /\ quotaCase' =
         [quotaCase EXCEPT
            !.applied = TRUE,
            !.decimal = QuotaCalculateDecimal(quotaCase.usage, quotaCase.price,
                                              quotaCase.tools),
            !.quota = FinalQuota(quotaCase.usage, quotaCase.price, quotaCase.tools)]
    /\ UNCHANGED <<relayVars, retryCase, sideVars>>

NextQuota == ApplyPostConsumeQuota

SpecQuota == InitQuota /\ [][NextQuota]_vars

(***************************************************************************)
(* Properties.                                                             *)
(***************************************************************************)
PendingRefunds ==
    {k \in 1 .. Len(refundTasks) : ~refundTasks[k].done}
RECURSIVE SumAmounts(_)
SumAmounts(ks) ==
    IF ks = {} THEN 0
    ELSE LET k == CHOOSE x \in ks : TRUE
         IN  refundTasks[k].amount + SumAmounts(ks \ {k})
TasksOf(r, att) ==
    {k \in 1 .. Len(refundTasks) : refundTasks[k].req = r /\ refundTasks[k].att = att}

\* C1: a request executes at most RetryTimes + 1 attempts, under Relay,
\* WssRelay, RelayClaude and RelayTask alike.
C1_AtMostRPlusOneAttempts ==
    \A r \in Reqs : rq[r].nAttempts <= RetryTimes + 1

\* a task request that used its whole budget: the first attempt and RetryTimes retries
C1_Witness ==
    \E r \in Reqs : /\ rq[r].kind = "RelayTask"
                    /\ rq[r].pc = "done"
                    /\ RetryTimes >= 1
                    /\ rq[r].nAttempts = RetryTimes + 1
                    /\ rq[r].result = "error"

\* C2: the trail of a request holds one entry per executed attempt, its last
\* entry is the channel of the current attempt, and no identifier occurs twice.
C2_NoChannelTriedTwice ==
    \A r \in Reqs :
      LET u == rq[r].useChannel
      IN  /\ \A a, b \in 1 .. Len(u) : a # b => u[a] # u[b]
          /\ Len(u) = rq[r].nAttempts
          /\ rq[r].nAttempts > 0 => u[Len(u)] = Itoa(rq[r].channel)

\* a retried request running its third attempt on a third channel
C2_Witness ==
    \E r \in Reqs : /\ rq[r].kind = "Relay"
                    /\ rq[r].pc = "helper"
                    /\ rq[r].i = 2
                    /\ Len(rq[r].useChannel) = 3

\* the decision table of the failover policy
RetryTable(hasSpecific, channelType, err, remainingBudget) ==
    IF err.local \/ remainingBudget <= 0 \/ hasSpecific THEN FALSE
    ELSE CASE err.status \in {429, 307} -> TRUE
           [] err.status \in {504, 524, 408} -> FALSE
           [] err.status \in 500 .. 599 -> TRUE
           [] err.status = 400 -> channelType = "Anthropic"
           [] err.status \in 200 .. 299 -> FALSE
           [] OTHER -> TRUE

\* C3: for every error, context and remaining budget shouldRetry answers as
\* the decision table does.
C3_ShouldRetryTable ==
    (retryCase.applied /\ ~retryCase.err.nil) =>
        retryCase.retry = RetryTable(retryCase.hasSpecific, retryCase.channelType,
                                     retryCase.err, retryCase.retryTimes)

\* a 504 with budget left and no pinned channel: not retried
C3_Witness ==
    /\ retryCase.applied
    /\ retryCase.err = MkErr(504, FALSE, "")
    /\ retryCase.retryTimes > 0
    /\ ~retryCase.hasSpecific
    /\ ~retryCase.retry

\* C4: an error flagged local is never retried, whatever its status and the
\* remaining budget, by shouldRetry and by shouldRetryTaskRelay.
C4_LocalNeverRetried ==
    (retryCase.applied /\ ~retryCase.err.nil /\ retryCase.err.local) =>
        (~retryCase.retry /\ ~retryCase.taskRetry)

C6_RefundExactlyOnce ==
    /\ \A k \in 1 .. Len(refundTasks) : refundTasks[k].amount > 0
    /\ \A r \in Reqs : \A att \in 1 .. MaxRetryTimes + 2 :
         /\ Cardinality(TasksOf(r, att)) <= 1
         /\ att > rq[r].nAttempts => TasksOf(r, att) = {}
    /\ \A r \in Reqs :
         (rq[r].kind = "Relay" /\ rq[r].pc = "evaluate") =>
            IF ~rq[r].openaiErr.nil /\ rq[r].preConsumedQuota > 0
            THEN \E k \in TasksOf(r, rq[r].nAttempts) :
                    refundTasks[k].amount = rq[r].preConsumedQuota
            ELSE TasksOf(r, rq[r].nAttempts) = {}

\* the attempt has returned its error and the refund of its reservation is
\* still waiting in the pool
C6_Witness ==
    \E r \in Reqs : /\ rq[r].pc = "evaluate"
                    /\ ~rq[r].openaiErr.nil
                    /\ rq[r].preConsumedQuota = 50
                    /\ \E k \in TasksOf(r, rq[r].nAttempts) :
                         ~refundTasks[k].done /\ refundTasks[k].amount = 50
                    /\ dbUserQuota = initUserQuota - 50

\* C7: after a successful attempt with tokens settles, the balance is the
\* balance before the attempt's pre-consumption less the final charge,
\* whether the reservation was skipped or made; refunds of earlier attempts
\* still in the pool are counted with the balance.
C7_SettlementNetOfReservation ==
    \A r \in Reqs :
      (rq[r].kind = "Relay" /\ rq[r].pc \in {"evaluate", "done"}
         /\ rq[r].openaiErr.nil /\ rq[r].totalTokens > 0) =>
          /\ dbUserQuota + SumAmounts(PendingRefunds) = initUserQuota - rq[r].quota
          /\ refundTasks = <<>> => dbUserQuota = rq[r].userQuota - rq[r].quota

\* balance 1000, estimate 5, reservation skipped, charge 7: balance 993
C7_Witness ==
    \E r \in Reqs : /\ rq[r].pc = "evaluate"
                    /\ rq[r].openaiErr.nil
                    /\ rq[r].userQuota = 1000
                    /\ rq[r].estimate = 5
                    /\ rq[r].preConsumedQuota = 0
                    /\ rq[r].quota = 7
                    /\ dbUserQuota = 993

\* the step in which preConsumeQuota reads the balance of request r and
\* applies the balance test
BalanceTestStep(r) ==
    /\ rq[r].kind = "Relay"
    /\ rq[r].pc = "helper"
    /\ rq'[r].pc # "helper"
    /\ rq'[r].openaiErr \notin EarlyErrors
    /\ rq'[r].openaiErr.code # "get_user_quota_failed"

\* C8: preConsumeQuota fails with the local 403 insufficient-quota error when
\* the balance is <= 0 or less than the estimate, leaving balance and
\* allotment as they were and the attempt without an upstream call; otherwise
\* the balance test lets the attempt through.
C8_InsufficientBalanceFails ==
    [][\A r \in Reqs :
         BalanceTestStep(r) =>
            IF dbUserQuota <= 0 \/ dbUserQuota - rq'[r].estimate < 0
            THEN /\ rq'[r].openaiErr = MkErr(403, TRUE, "insufficient_user_quota")
                 /\ rq'[r].pc = "evaluate"
                 /\ rq'[r].preConsumedQuota = 0
                 /\ dbUserQuota' = dbUserQuota
                 /\ dbTokenQuota' = dbTokenQuota
                 /\ refundTasks' = refundTasks
            ELSE /\ rq'[r].openaiErr.nil
                 /\ rq'[r].pc \in {"predec", "upstream"}]_vars

\* balance 3 against an estimate of 5: refused, nothing consumed
C8_Witness ==
    \E r \in Reqs : /\ rq[r].pc = "evaluate"
                    /\ rq[r].openaiErr.code = "insufficient_user_quota"
                    /\ rq[r].userQuota = 3
                    /\ rq[r].estimate = 5
                    /\ dbUserQuota = 3
                    /\ dbTokenQuota = rq[r].tokenQuota

\* C9: when preConsumeQuota returns without error it has reserved 0 exactly
\* when balance > 100 x estimate and the token is unlimited or its quota is
\* > 100 x estimate; otherwise it has reserved the estimate and taken exactly
\* that amount from the balance.
C9_TrustSkipOrFullReservation ==
    [][\A r \in Reqs :
         (rq[r].kind = "Relay" /\ rq[r].pc \in {"helper", "predec"}
            /\ rq'[r].pc = "upstream") =>
            LET balance == rq'[r].userQuota
                estimate == rq'[r].estimate
                trusted == /\ balance > 100 * estimate
                           /\ (rq[r].tokenUnlimited \/ rq[r].tokenQuota > 100 * estimate)
            IN  /\ rq'[r].preConsumedQuota = (IF trusted THEN 0 ELSE estimate)
                /\ dbUserQuota' = dbUserQuota - rq'[r].preConsumedQuota]_vars

\* balance 500 is not more than 100 x 5: the estimate is reserved in full
C9_Witness ==
    \E r \in Reqs : /\ rq[r].pc = "upstream"
                    /\ rq[r].userQuota = 500
                    /\ rq[r].estimate = 5
                    /\ rq[r].preConsumedQuota = 5
                    /\ dbUserQuota = 495

\* C10: a charge that is strictly positive before rounding but rounds to 0
\* is charged as 1, never as 0.
C10_PositiveChargeClampedToOne ==
    (quotaCase.applied /\ TotalTokens(quotaCase.usage) > 0
       /\ DPositive(quotaCase.decimal) /\ DRound(quotaCase.decimal) = 0) =>
        quotaCase.quota = 1

\* C11: when the usage of a successful attempt has no prompt and no
\* completion tokens, the charge is 0 whatever the ratios, flat price and
\* tool calls, the whole reservation goes back to the balance, and the used-
\* quota counters of user and channel stay as they were.
C11_ZeroTokensChargeNothing ==
    [][\A r \in Reqs :
         (rq[r].pc = "settle" /\ rq'[r].pc # "settle" /\ rq'[r].totalTokens = 0) =>
            /\ rq'[r].quota = 0
            /\ dbUserQuota' = dbUserQuota + rq[r].preConsumedQuota
            /\ userUsedQuota' = userUsedQuota
            /\ channelUsedQuota' = channelUsedQuota]_vars

\* a reservation of 50 settled on a usage without tokens: charge 0, balance
\* back at its initial value, counters untouched
C11_Witness ==
    \E r \in Reqs : /\ rq[r].pc = "evaluate"
                    /\ rq[r].openaiErr.nil
                    /\ rq[r].totalTokens = 0
                    /\ rq[r].preConsumedQuota = 50
                    /\ rq[r].quota = 0
                    /\ refundTasks = <<>>
                    /\ dbUserQuota = initUserQuota
                    /\ userUsedQuota = 0

\* the charge a terminated request ends with: its settled quota when it
\* succeeded, nothing when it failed
FinalCharge(r) == IF rq[r].result = "success" THEN rq[r].quota ELSE 0

RECURSIVE SumCharges(_)
SumCharges(S) ==
    IF S = {} THEN 0
    ELSE LET r == CHOOSE x \in S : TRUE IN FinalCharge(r) + SumCharges(S \ {r})

\* C12: when concurrent requests of one user have all terminated and every
\* refund has run, the balance is the initial balance less the sum of their
\* final charges, whatever the interleaving of reservations, refunds and
\* settlements was.
C12_NoLostBalanceUpdate ==
    ((\A r \in Reqs : rq[r].pc = "done") /\ PendingRefunds = {})
        => dbUserQuota = initUserQuota - SumCharges(Reqs)

\* one request failed after reserving and was refunded, the other reserved
\* and settled a charge of 7
C12_Witness ==
    /\ \A r \in Reqs : rq[r].pc = "done"
    /\ PendingRefunds = {}
    /\ \E k \in 1 .. Len(refundTasks) : refundTasks[k].amount = 50
    /\ \E r \in Reqs : /\ rq[r].result = "success"
                       /\ rq[r].quota = 7
                       /\ rq[r].preConsumedQuota = 50
    /\ \E r \in Reqs : rq[r].result = "error"
    /\ dbUserQuota = initUserQuota - 7

\* C13: a reservation is decremented only from a balance that covers it at
\* that moment, so the decrement never leaves the balance below zero.
C13_ReservationWithinBalance ==
    [][\A r \in Reqs :
         (rq[r].pc = "predec" /\ rq'[r].pc = "upstream") =>
            /\ dbUserQuota >= rq[r].preConsumedQuota
            /\ dbUserQuota' >= 0]_vars

\* statuses the retry rules name as timeouts
TimeoutStatuses == {408, 504, 524}

\* C14: an attempt whose adaptor.DoRequest returned an error carries a
\* timeout status and ends the request: no further attempt follows it.
C14_TransportErrorNotRetried ==
    [][\A r \in Reqs :
         (/\ rq[r].pc = "evaluate"
          /\ rq[r].openaiErr.code = "do_request_failed"
          /\ rq'[r] # rq[r]) =>
            /\ rq[r].openaiErr.status \in TimeoutStatuses
            /\ rq'[r].pc = "done"]_vars

C16_Retry429Then400Stops ==
    \A r \in Reqs :
        LET t == rq[r].errTrail IN
        (/\ ~rq[r].specific
         /\ RetryTimes >= 1
         /\ Len(t) >= 2
         /\ t[1].status = 429 /\ ~t[1].local
         /\ t[2].status = 400 /\ ~t[2].local
         /\ t[2].channelType # ChannelTypeAnthropic) =>
            /\ rq[r].pc = "done"
            /\ Len(t) = 2
            /\ rq[r].nAttempts = 2
            /\ Len(rq[r].useChannel) = 2
            /\ rq[r].result = "error"
            /\ rq[r].openaiErr.status = 400
            /\ rq[r].resp.status = 400

\* the scenario with a budget of 2, so that one retry was left unused
C16_Witness ==
    \E r \in Reqs :
        /\ RetryTimes = MaxRetryTimes
        /\ rq[r].pc = "done"
        /\ Len(rq[r].errTrail) = 2
        /\ rq[r].errTrail[1].status = 429 /\ ~rq[r].errTrail[1].local
        /\ rq[r].errTrail[2].status = 400 /\ ~rq[r].errTrail[2].local
        /\ rq[r].errTrail[2].channelType # ChannelTypeAnthropic
        /\ rq[r].nAttempts = 2
        /\ rq[r].resp.status = 400

\* C17: an attempt that failed with 504 or 524 is the last one whatever
\* budget remains, and its error is the one sent to the client.
C17_GatewayTimeoutEndsRequest ==
    [][\A r \in Reqs :
         (/\ rq[r].pc \in {"evaluate", "task_loop"}
          /\ ~rq[r].openaiErr.nil
          /\ rq[r].openaiErr.status \in {504, 524}
          /\ rq'[r] # rq[r]) =>
            /\ rq'[r].pc = "done"
            /\ rq'[r].result = "error"
            /\ rq'[r].openaiErr = rq[r].openaiErr
            /\ rq'[r].nAttempts = rq[r].nAttempts
            /\ rq'[r].useChannel = rq[r].useChannel
            /\ rq'[r].resp.status = rq[r].openaiErr.status]_vars

\* a first attempt failed with an upstream 504 with budget left and no
\* pinned channel; the request ended there
C17_Witness ==
    \E r \in Reqs : /\ rq[r].pc = "done"
                    /\ rq[r].openaiErr.status = 504
                    /\ ~rq[r].openaiErr.local
                    /\ ~rq[r].specific
                    /\ RetryTimes - rq[r].i >= 1
                    /\ rq[r].nAttempts = 1
                    /\ rq[r].resp.status = 504

\* the error of a failed websocket upgrade, which precedes the loop
IsUpgradeFailure(req) ==
    req.kind = "WssRelay" /\ req.openaiErr.code = "get_channel_failed"
                          /\ ~req.openaiErr.local

\* C18: a request with a pinned channel makes exactly one attempt, on the
\* pinned channel, whatever that attempt returns and whatever the budget.
C18_PinnedChannelOneAttempt ==
    \A r \in Reqs :
        rq[r].specific =>
            /\ rq[r].nAttempts <= 1
            /\ rq[r].i = 0
            /\ rq[r].useChannel \in {<<>>, <<Itoa(rq[r].channelId)>>}
            /\ (rq[r].pc = "done" /\ ~IsUpgradeFailure(rq[r])) =>
                  /\ rq[r].nAttempts = 1
                  /\ rq[r].useChannel = <<Itoa(rq[r].channelId)>>

\* pinned request, budget left, other channels in the index, attempt failed
\* with an upstream 429: one attempt and the request is over
C18_Witness ==
    \E r \in Reqs : /\ rq[r].specific
                    /\ rq[r].pc = "done"
                    /\ rq[r].openaiErr.status = 429
                    /\ ~rq[r].openaiErr.local
                    /\ RetryTimes >= 1
                    /\ Cardinality(chanIndex) >= 2
                    /\ rq[r].nAttempts = 1

HasRequestId(req) ==
    /\ Len(req.resp.message) >= 2
    /\ req.resp.message[Len(req.resp.message)] = req.requestId

\* C20: every final error an entry point sends to the client has the request
\* id appended to its message.
C20_FinalErrorCarriesRequestId ==
    \A r \in Reqs : rq[r].resp.written => HasRequestId(rq[r])

\* the message holds a part of the raw text of the upstream error
HasOriginText(req) ==
    \E k \in 1 .. Len(req.resp.message) : req.resp.message[k] = OriginMessage[1]

\* C21: a final error with status 429 reaches the client with the generic
\* saturation message and without any of the raw upstream text, whatever the
\* entry point.
C21_Final429IsGeneric ==
    \A r \in Reqs :
        (rq[r].resp.written /\ rq[r].resp.status = 429) =>
            /\ rq[r].resp.message[1] = SaturatedMessage[1]
            /\ ~HasOriginText(rq[r])

\* C22: a request writes at most one error response, and only when its loop
\* has ended: while the request runs nothing is written, so the error of a
\* retried attempt never reaches the client, and a request that ends with a
\* successful attempt has written no error response.
C22_OneErrorResponseAfterLoop ==
    \A r \in Reqs :
        /\ rq[r].errWrites <= 1
        /\ rq[r].pc # "done" => (rq[r].errWrites = 0 /\ ~rq[r].resp.written)
        /\ rq[r].result = "success" => (rq[r].errWrites = 0 /\ ~rq[r].resp.written)
        /\ rq[r].errWrites = 1 =>
              /\ rq[r].result = "error"
              /\ rq[r].resp.written
              /\ rq[r].resp.status = rq[r].openaiErr.status

\* a first attempt was retried and the second one failed for good: one error
\* response, that of the second attempt
C22_Witness ==
    \E r \in Reqs : /\ rq[r].kind = "Relay"
                    /\ rq[r].pc = "done"
                    /\ rq[r].nAttempts = 2
                    /\ rq[r].openaiErr.status = 400
                    /\ rq[r].errWrites = 1
                    /\ rq[r].resp.status = 400

C24_UploadFailureHarmless ==
    \A r \in Reqs :
        (\E q \in Reqs : rq[q].uploadFailed) =>
            /\ ~rq[r].exited
            /\ rq[r].pc # "exited"

\* reports of a request that disabled their channel
DisablingReports(r) ==
    {k \in 1 .. Len(rq[r].reports) : rq[r].reports[k].state = "disabled"}

\* C25: a channel is disabled only by the report of a failed attempt on it
\* whose error was classified as disabling and whose captured auto-ban flag
\* was on; a channel with auto-ban off is never disabled, and a request
\* has exactly one report per failed attempt, none for a successful one.
C25_DisableNeedsAutoBan ==
    /\ \A ch \in Channels \ chanIndex :
          /\ AutoBanOf(ch)
          /\ \E r \in Reqs : \E k \in DisablingReports(r) :
                rq[r].reports[k].channel = ch /\ rq[r].reports[k].autoBan
    /\ \A r \in Reqs : \A k \in 1 .. Len(rq[r].reports) :
          /\ rq[r].reports[k].autoBan = AutoBanOf(rq[r].reports[k].channel)
          /\ ~rq[r].reports[k].autoBan => rq[r].reports[k].state # "disabled"
    /\ \A r \in Reqs :
          (rq[r].reporting /\ rq[r].pc = "done") =>
             Len(rq[r].reports) =
                rq[r].nAttempts - (IF rq[r].result = "success" THEN 1 ELSE 0)

\* two failed attempts, the first on channel 1 (auto-ban off), the second on
\* a channel with auto-ban on: both reports have run, only the second
\* channel left the index
C25_Witness ==
    \E r \in Reqs :
        /\ Len(rq[r].reports) = 2
        /\ rq[r].reports[1].channel = 1
        /\ rq[r].reports[1].state = "kept"
        /\ rq[r].reports[2].state = "disabled"
        /\ 1 \in chanIndex
        /\ rq[r].reports[2].channel \notin chanIndex

\* the step of request r in which getChannel returned a channel
GotChannel(r) == rq[r].pc = "loop" /\ rq'[r].pc = "helper"

\* C26: on attempt 0 getChannel returns the channel of the inbound context
\* and the channel cache is not consulted; on an attempt with retry count
\* >= 1 the cache selector is called once and the channel it selected is
\* the channel of the request context when the attempt runs.
C26_FirstFromContextRetriesFromCache ==
    [][\A r \in Reqs :
          /\ (GotChannel(r) /\ rq[r].i = 0) =>
                /\ rq'[r].channel = rq[r].channelId
                /\ rq'[r].channelId = rq[r].channelId
                /\ rq'[r].channelType = rq[r].channelType
                /\ rq'[r].cacheCalls = 0
          /\ (GotChannel(r) /\ rq[r].i >= 1) =>
                /\ rq'[r].cacheCalls = rq[r].cacheCalls + 1
                /\ rq'[r].channel \in chanIndex
                /\ rq'[r].channelId = rq'[r].channel
                /\ rq'[r].channelType = ChannelTypeOf(rq'[r].channel)
          /\ rq'[r].cacheCalls <= rq'[r].i]_vars

\* a second attempt runs on a channel other than the inbound one, after one
\* call of the cache selector
C26_Witness ==
    \E r \in Reqs :
        /\ rq[r].kind \in {"Relay", "WssRelay", "RelayClaude"}
        /\ rq[r].pc = "helper"
        /\ rq[r].i = 1
        /\ rq[r].cacheCalls = 1
        /\ rq[r].channelId = rq[r].channel
        /\ rq[r].useChannel[1] # Itoa(rq[r].channel)
        /\ rq[r].useChannel[2] = Itoa(rq[r].channel)

WeightedTokens(usage, price, tools) ==
    LET separateAudio == IF AudioSeparate(usage, price, tools)
                         THEN usage.audioTokens ELSE 0
        plain == usage.promptTokens - usage.cachedTokens - usage.imageTokens
                    - separateAudio
        weighted == DAdd(DAdd(DAdd(DInt(plain),
                                   DMul(DInt(usage.cachedTokens), price.cacheRatio)),
                              DMul(DInt(usage.imageTokens), price.imageRatio)),
                         DMul(DInt(usage.completionTokens), price.completionRatio))
    IN  DMul(DMul(weighted, price.modelRatio), price.groupRatio)

\* the flat charges of the web search and file search calls
ToolCharges(price, tools) ==
    DAdd(WebSearchQuota(price, tools), FileSearchQuota(price, tools))

\* a settled per-token charge with tokens and without the minimum-charge clamp
PerTokenCase ==
    /\ quotaCase.applied
    /\ ~quotaCase.price.usePrice
    /\ TotalTokens(quotaCase.usage) > 0
    /\ ~MinimumChargeClamp(quotaCase.usage, quotaCase.price, quotaCase.tools)

\* C28 as stated: the per-token charge is the rounding of the weighted token
\* sum times the ratios plus the per-call tool charges.
C28_ChargeIsTokensPlusTools ==
    PerTokenCase =>
        quotaCase.quota =
            DRound(DAdd(WeightedTokens(quotaCase.usage, quotaCase.price, quotaCase.tools),
                        ToolCharges(quotaCase.price, quotaCase.tools)))

\* C28: the per-token charge is the rounding, done once at the end, of the
\* weighted token sum times the ratios, plus the per-call tool charges, plus
\* the charge of the separately priced audio input tokens.
C28_ChargeIsTokensToolsAndAudio ==
    PerTokenCase =>
        quotaCase.quota =
            DRound(DAdd(DAdd(WeightedTokens(quotaCase.usage, quotaCase.price,
                                            quotaCase.tools),
                             ToolCharges(quotaCase.price, quotaCase.tools)),
                        AudioInputQuota(quotaCase.usage, quotaCase.price,
                                        quotaCase.tools)))

\* a per-token charge of a usage with cached, image and separately priced
\* audio tokens, whose audio charge is not zero
C28_Witness ==
    /\ PerTokenCase
    /\ quotaCase.usage.cachedTokens > 0
    /\ quotaCase.usage.imageTokens > 0
    /\ quotaCase.usage.completionTokens > 0
    /\ AudioSeparate(quotaCase.usage, quotaCase.price, quotaCase.tools)
    /\ DPositive(AudioInputQuota(quotaCase.usage, quotaCase.price, quotaCase.tools))
    /\ quotaCase.quota > 0

\* the errors TextHelper returns before it calls adaptor.DoRequest
PreUpstreamErrors ==
    EarlyErrors \cup RequestErrors
      \cup {OpenAIErrorWrapperLocal("get_user_quota_failed", 500),
            OpenAIErrorWrapperLocal("insufficient_user_quota", 403),
            OpenAIErrorWrapperLocal("pre_consume_token_quota_failed", 403),
            OpenAIErrorWrapperLocal("decrease_user_quota_failed", 500)}

\* C29: an attempt that failed inside TextHelper before anything was sent
\* upstream is not followed by another attempt.
C29_PreUpstreamFailureNotRetried ==
    [][\A r \in Reqs :
          (/\ rq[r].kind = "Relay"
           /\ rq[r].pc = "evaluate"
           /\ rq[r].openaiErr \in PreUpstreamErrors
           /\ ~rq[r].sent.set) => rq'[r].pc # "loop"]_vars

\* reservations of request r that were taken and are neither settled nor
\* returned yet: the one of the running attempt and the refunds still queued
OutstandingReservations(r) ==
    Cardinality({k \in 1 .. Len(refundTasks) :
                    refundTasks[k].req = r /\ ~refundTasks[k].done})
      + (IF rq[r].pc \in {"upstream", "settle"} /\ rq[r].preConsumedQuota > 0
         THEN 1 ELSE 0)

\* request r is the only one of its user that ever ran
RunsAlone(r) == \A q \in Reqs \ {r} : rq[q].pc = "off"

\* C30: for a request that runs alone and whose user held at least the
\* estimate at the start, no retry attempt fails the balance test of
\* pre-consumption, and at most one reservation is outstanding at any time.
C30_OneReservationAtATime ==
    \A r \in Reqs :
        RunsAlone(r) =>
            /\ (/\ rq[r].i >= 1
                /\ rq[r].pc = "evaluate"
                /\ rq[r].estimate <= initUserQuota)
                  => rq[r].openaiErr.code # "insufficient_user_quota"
            /\ OutstandingReservations(r) <= 1

\* C31: a preConsumeQuota that returns an error leaves the user balance and
\* the token allotment as they were before the call.
C31_FailedPreConsumeConsumesNothing ==
    [][\A r \in Reqs :
          (rq[r].pc = "predec" /\ rq'[r].pc = "evaluate") =>
              /\ ~rq'[r].openaiErr.nil
              /\ dbUserQuota' = dbUserQuota
              /\ dbTokenQuota' = dbTokenQuota]_vars

\* the step of request r that ends an attempt which ran on a channel
AttemptEnds(r) == rq[r].pc = "evaluate" /\ rq'[r].pc # "evaluate"

\* C32: the end of a failed attempt, retried or not, starts exactly one
\* report, pending, with the id, type and auto-ban flag of the channel of
\* that attempt; the end of a successful attempt and every other step of the
\* loop, a failed channel selection included, start none; and a report that
\* runs leaves the loop where it was.
C32_OneReportPerFailedAttempt ==
    [][\A r \in Reqs : rq[r].reporting =>
          /\ (AttemptEnds(r) /\ ~rq[r].openaiErr.nil) =>
                /\ Len(rq'[r].reports) = Len(rq[r].reports) + 1
                /\ SubSeq(rq'[r].reports, 1, Len(rq[r].reports)) = rq[r].reports
                /\ rq'[r].reports[Len(rq'[r].reports)] =
                      [channel |-> rq[r].channel,
                       channelType |-> rq[r].channelType,
                       autoBan |-> AutoBanOf(rq[r].channel),
                       state |-> "pending", logged |-> <<>>]
          /\ (AttemptEnds(r) /\ rq[r].openaiErr.nil) => rq'[r].reports = rq[r].reports
          /\ (~AttemptEnds(r) /\ rq'[r].pc # rq[r].pc) => rq'[r].reports = rq[r].reports
          /\ rq'[r].reports # rq[r].reports =>
                (AttemptEnds(r) \/ [rq'[r] EXCEPT !.reports = rq[r].reports] = rq[r])]_vars

\* the second attempt is at the upstream while the report of the first has
\* not run yet
C32_Witness ==
    \E r \in Reqs :
        /\ rq[r].reporting
        /\ rq[r].pc = "upstream"
        /\ rq[r].nAttempts = 2
        /\ Len(rq[r].reports) = 1
        /\ rq[r].reports[1].state = "pending"
        /\ rq[r].reports[1].channel # rq[r].channel

\* C33: the message a report logs, and gives as the reason when it disables
\* the channel, is the message the error had when the attempt failed.
C33_ReportSeesAttemptMessage ==
    \A r \in Reqs : \A k \in 1 .. Len(rq[r].reports) :
        rq[r].reports[k].state # "pending" =>
            rq[r].reports[k].logged = OriginMessage

\* the step in which request r leaves the loop of Relay
LoopEnds(r) == rq[r].pc # "done" /\ rq'[r].pc = "done"

\* the trail of a Relay request grows by the id of the channel of an
\* attempt when that attempt starts, and at no other step
TrailFollowsAttempts(r) ==
    /\ GotChannel(r) =>
          /\ rq'[r].useChannel = Append(rq[r].useChannel, Itoa(rq'[r].channel))
          /\ rq'[r].nAttempts = rq[r].nAttempts + 1
          /\ Len(rq'[r].useChannel) = rq'[r].nAttempts
    /\ ~GotChannel(r) => rq'[r].useChannel = rq[r].useChannel
    /\ rq'[r].summaries # rq[r].summaries =>
          (LoopEnds(r) /\ rq[r].summaries = 0 /\ rq'[r].summaries = 1)

RECURSIVE NewestFirst(_, _)
NewestFirst(stamps, n) ==
    IF n = 0 \/ stamps = <<>> THEN <<>>
    ELSE <<stamps[Len(stamps)]>> \o NewestFirst(SubSeq(stamps, 1, Len(stamps) - 1), n - 1)

C36_ConcurrentLimitHolds ==
    \A k \in 1 .. Len(limiter.admitted) - maxRequestNum :
        limiter.admitted[k + maxRequestNum] - limiter.admitted[k]
           >= duration * TicksPerSecond


\* C37: once the controller sync has committed, table A holds exactly the
\* rows of b: every id of b with b's name and no other id.  Rows whose id b
\* lacks were deleted, rows of b were inserted or had their name overwritten.
C37_CommitMakesAEqualB ==
    (sync.kind = "controller" /\ sync.result = "committed")
        => /\ sync.a = getChannels(sync.before)
           /\ sync.A = SeqRange(sync.b)
           /\ \A row \in sync.before :
                 (row.id \notin {ch.id : ch \in SeqRange(sync.b)})
                     => row.id \notin {p.id : p \in sync.A}

\* a committed sync that deleted a row, inserted a row and overwrote a name
C37_Witness ==
    /\ sync.kind = "controller"
    /\ sync.result = "committed"
    /\ \E gone, kept \in sync.before, new, over \in SeqRange(sync.b) :
          /\ gone.id \notin {ch.id : ch \in SeqRange(sync.b)}
          /\ new.id \notin {row.id : row \in sync.before}
          /\ kept.id = over.id /\ kept.name # over.name
          /\ over \in sync.A /\ new \in sync.A

\* C38: a sync that failed at any step after the transaction began (the
\* batch delete, the prepare, an upsert, the commit) leaves table A as it was
\* before the sync with the transaction closed, and while the transaction is
\* open other connections see table A as it was.
C38_FailedSyncLeavesAUntouched ==
    sync.kind = "controller"
        => /\ sync.result = "failed" => (sync.A = sync.before /\ ~sync.txOpen)
           /\ sync.txOpen => sync.A = sync.before

\* an upsert failed after the transaction had deleted a row and written one
C38_Witness ==
    /\ sync.kind = "controller"
    /\ sync.result = "failed"
    /\ sync.failedAt = "upsert"
    /\ sync.i > 1
    /\ sync.dirty
    /\ getDeleteIDs(sync.a, sync.b) # <<>>
    /\ sync.A = sync.before

\* C39: once the GORM sync has committed, the names held by table A are the
\* names held by b.
C39_CommitMakesNamesEqual ==
    (sync.kind = "gorm" /\ sync.result = "committed")
        => NamesOf(sync.A) = NamesOf(SeqRange(sync.b))


(***************************************************************************)
(* The archive: the two writers of the relay and the reader of the log     *)
(* controller, on one bucket.                                              *)
(***************************************************************************)
\* the object key the writers pass to UploadToIdrive: the request id itself
UploadObjectKey(requestId) == <<requestId>>

\* fmt.Sprintf("req_%s", requestId) and fmt.Sprintf("resp_%s", requestId)
reqObjectKey(requestId) == <<"req_", requestId>>
respObjectKey(requestId) == <<"resp_", requestId>>

\* json.Marshal(jsonContent) of SaveReqAndRespToIdrive
JsonContent(requestId, requestBody, responseBody) ==
    [form |-> "jsonContent", request_id |-> requestId,
     requestBody |-> requestBody, responseBody |-> responseBody]

\* the raw request body AsyncRequestSaver uploads
RawBody(body) ==
    [form |-> "body", request_id |-> "", requestBody |-> body, responseBody |-> ""]

\* MinioClient.PutObject: the object of that key is created or replaced
PutObject(objects, objectKey, content) ==
    {o \in objects : o.key # objectKey} \cup {[key |-> objectKey, content |-> content]}

\* DownloadFromIdrive: the object of that key, if the bucket holds one
HasObject(objects, objectKey) == \E o \in objects : o.key = objectKey

\* UploadToIdrive: PutObject, and log.Fatalf when it fails
UploadToIdrive(store, objectKey, content, requestId, ok) ==
    IF ok
    THEN [store EXCEPT !.objects = PutObject(@, objectKey, content),
                       !.saved = @ \cup {requestId}, !.ops = @ + 1]
    ELSE [store EXCEPT !.exited = TRUE, !.ops = @ + 1]

IdriveIdle == UNCHANGED <<relayVars, retryCase, quotaCase, limiter, sync>>

\* controller.SaveReqAndRespToIdrive for a context holding requestId, a
\* request body and a response body; parsed says whether both are JSON
SaveReqAndRespToIdrive ==
    /\ ~idrive.exited
    /\ idrive.ops < MaxArchiveOps
    /\ \E requestId \in ArchiveIds, requestBody, responseBody \in ArchiveBodies,
          parsed, ok \in BOOLEAN :
          idrive' = IF requestId = "" \/ ~parsed
                    THEN [idrive EXCEPT !.ops = @ + 1]
                    ELSE UploadToIdrive(idrive, UploadObjectKey(requestId),
                                        JsonContent(requestId, requestBody, responseBody),
                                        requestId, ok)
    /\ IdriveIdle

\* the goroutine of middleware.AsyncRequestSaver; an empty object key is
\* refused by the client
AsyncRequestSaver ==
    /\ ~idrive.exited
    /\ idrive.ops < MaxArchiveOps
    /\ \E requestId \in ArchiveIds, body \in ArchiveBodies, method \in {"GET", "POST"},
          ok \in BOOLEAN :
          idrive' = IF method # "POST"
                    THEN [idrive EXCEPT !.ops = @ + 1]
                    ELSE UploadToIdrive(idrive, UploadObjectKey(requestId), RawBody(body),
                                        requestId, ok /\ requestId # "")
    /\ IdriveIdle

\* controller.GetReqRespFromIdrive(requestId)
GetReqRespFromIdrive ==
    /\ ~idrive.exited
    /\ idrive.ops < MaxArchiveOps
    /\ \E requestId \in ArchiveIds :
          LET outcome ==
                  IF requestId = ""
                  THEN [found |-> FALSE, message |-> "requestId is required"]
                  ELSE IF ~HasObject(idrive.objects, reqObjectKey(requestId))
                  THEN [found |-> FALSE, message |-> "download request from idrive failed"]
                  ELSE IF ~HasObject(idrive.objects, respObjectKey(requestId))
                  THEN [found |-> FALSE, message |-> "download response from idrive failed"]
                  ELSE [found |-> TRUE, message |-> ""]
          IN  idrive' = [idrive EXCEPT !.ops = @ + 1,
                                       !.lookup = [done |-> TRUE, requestId |-> requestId,
                                                   found |-> outcome.found,
                                                   message |-> outcome.message]]
    /\ IdriveIdle

InitIdrive ==
    /\ IdleRelay
    /\ retryCase = IdleRetryCase
    /\ quotaCase = IdleQuotaCase
    /\ limiter = IdleLimiter
    /\ sync = IdleSync
    /\ idrive = IdleIdrive

NextIdrive ==
    \/ SaveReqAndRespToIdrive
    \/ AsyncRequestSaver
    \/ GetReqRespFromIdrive

SpecIdrive == InitIdrive /\ [][NextIdrive]_vars

\* C40: a lookup by GetReqRespFromIdrive of a request id under which a
\* writer has stored an object finds the archived content.
C40_ArchiveRoundTrips ==
    (idrive.lookup.done /\ idrive.lookup.requestId \in idrive.saved)
        => idrive.lookup.found

====
